---- MODULE Spec2Model ----
(***************************************************************************)
(* grepWin search engine (src/src/SearchDlg.cpp): the dialog commands that *)
(* start and cancel a run, the walker thread (SearchThread), the pool      *)
(* workers (SearchFile), the two matchers (SearchOnTextFile on a decoded   *)
(* wide string, SearchByFilePath on the mapped bytes), the replace         *)
(* protocol (AdoptTempResultFile, BackupFile) and the messages delivered   *)
(* to the dialog.                                                          *)
(*                                                                         *)
(* Offsets are 0-based as in the source: offset p of a buffer is element   *)
(* p + 1 of the TLA+ sequence.  Code units are small naturals: a wide      *)
(* character is lo + 256 * hi of its two bytes.                            *)
(***************************************************************************)
EXTENDS Integers, Sequences, FiniteSets, TLC

(***************************************************************************)
(* Bounds.  SEARCHBLOCKSIZE is the block size of the scan loops, 1 << 26   *)
(* in the source, scaled down so that buffers of a few units span several  *)
(* blocks.                                                                 *)
(***************************************************************************)
SEARCHBLOCKSIZE == 4
MaxLen == 3

(***************************************************************************)
(* Code units used in buffers and expressions: two letters for the text,   *)
(* '*' as the one regex metacharacter, the backslash, and a third letter   *)
(* for the replacement string.                                             *)
(***************************************************************************)
ChStar == 42
ChBackslash == 92
Alphabet == {1, 2}
ReplaceString == << 3 >>
SearchStrings == { << 1 >>, << 1, 2 >>, << 1, ChStar >> }

\* units at offsets a .. b-1 of s
Sub(s, a, b) == SubSeq(s, a + 1, b)

RECURSIVE Flatten(_)
Flatten(ss) == IF ss = << >> THEN << >> ELSE Head(ss) \o Flatten(Tail(ss))

(***************************************************************************)
(* Encodings (CTextFile::UnicodeType) and the conversions of lines         *)
(* 4299-4365.                                                              *)
(***************************************************************************)
AutoType == "AutoType"
Ansi == "Ansi"
UTF8 == "UTF8"
Unicode_Le == "Unicode_Le"
Unicode_Be == "Unicode_Be"
Binary == "Binary"

utf16SwapUnit(u) == ((u % 256) * 256) + (u \div 256)

utf16Swap(str) == [i \in 1..Len(str) |-> utf16SwapUnit(str[i])]

\* the two bytes of a wide character as they lie in memory (little endian)
UnitBytes(u) == << u % 256, u \div 256 >>

WideBytes(str) == Flatten([i \in 1..Len(str) |-> UnitBytes(str[i])])

\* ConvertToString<char>: the expression as bytes of the assumed encoding
ConvertToStringA(str, encoding) ==
    CASE encoding = Unicode_Le -> WideBytes(str)
      [] encoding = Unicode_Be -> WideBytes(utf16Swap(str))
      [] encoding = Ansi -> str
      [] encoding = UTF8 -> str
      [] OTHER -> << >>

\* ConvertToString<wchar_t>
ConvertToStringW(str, encoding) ==
    IF encoding = Unicode_Be THEN utf16Swap(str) ELSE str

\* the wide characters of a byte range: bytes[skip .. skip+work) read as
\* little-endian wchar_t
WideUnits(bytes, skip, work) ==
    [i \in 1..(work \div 2) |->
        bytes[skip + 2 * i - 1] + 256 * bytes[skip + 2 * i]]

\* ConvertToWstring: the bytes of a line as the wide string kept for it
ConvertToWstring(str, encoding) ==
    CASE encoding = Ansi -> str
      [] encoding = UTF8 -> str
      [] encoding = Unicode_Be -> utf16Swap(WideUnits(str, 0, Len(str) - (Len(str) % 2)))
      [] OTHER -> WideUnits(str, 0, Len(str) - (Len(str) % 2))

(***************************************************************************)
(* boost::regex on the expressions the model uses: a literal word, or one  *)
(* unit followed by '*' (greedy, may match the empty string).              *)
(***************************************************************************)
NoMatch == [first |-> -1, second |-> -1]

\* "\x5c", what escapeForRegexEx puts for a backslash
HexBackslash == << ChBackslash, 120, 53, 99 >>

\* escapeForRegexEx(str, 0) on the units of the model: the backslash becomes
\* "\x5c" and the metacharacter gets a backslash in front
escapeForRegexEx(str) ==
    Flatten([i \in 1..Len(str) |->
        IF str[i] = ChBackslash THEN HexBackslash
        ELSE IF str[i] = ChStar THEN << ChBackslash, ChStar >>
        ELSE << str[i] >>])

\* the literal units an expression without operators stands for
RECURSIVE Unescape(_)
Unescape(expr) ==
    IF expr = << >> THEN << >>
    ELSE IF Len(expr) >= 4 /\ SubSeq(expr, 1, 4) = HexBackslash
         THEN << ChBackslash >> \o Unescape(SubSeq(expr, 5, Len(expr)))
    ELSE IF Head(expr) = ChBackslash /\ Len(expr) >= 2
         THEN << expr[2] >> \o Unescape(Tail(Tail(expr)))
         ELSE << Head(expr) >> \o Unescape(Tail(expr))

basic_regex(expr) ==
    IF Len(expr) = 2 /\ expr[2] = ChStar /\ expr[1] # ChBackslash
    THEN [kind |-> "star", w |-> << expr[1] >>]
    ELSE [kind |-> "lit", w |-> Unescape(expr)]

RECURSIVE RunLength(_, _, _, _)
RunLength(text, p, to, c) ==
    IF p < to /\ text[p + 1] = c THEN 1 + RunLength(text, p + 1, to, c) ELSE 0

\* length of the match that starts at offset p inside [p, to), or -1
MatchAt(text, p, to, re) ==
    IF re.kind = "star"
    THEN RunLength(text, p, to, re.w[1])
    ELSE IF Len(re.w) > 0 /\ p + Len(re.w) <= to /\ Sub(text, p, p + Len(re.w)) = re.w
         THEN Len(re.w)
         ELSE -1

\* regex_search(from, to, what, re, flags): leftmost match in [from, to];
\* notInitialNull is match_not_initial_null
regex_search(text, from, to, re, notInitialNull) ==
    LET ok(p) == /\ MatchAt(text, p, to, re) >= 0
                 /\ ~(notInitialNull /\ p = from /\ MatchAt(text, p, to, re) = 0)
        cand == {p \in from..to : ok(p)}
    IN  IF cand = {} THEN NoMatch
        ELSE LET p == CHOOSE q \in cand : \A r \in cand : q <= r
             IN  [first |-> p, second |-> p + MatchAt(text, p, to, re)]

\* "$&" in a replacement string: the text of the hit
WholeMatch == << 36, 38 >>

\* RegexReplaceFormatter / match_results::format: the replacement string
\* with the text of the hit in the place of every "$&"
RECURSIVE Format(_, _)
Format(fmt, matched) ==
    IF fmt = << >> THEN << >>
    ELSE IF Len(fmt) >= 2 /\ SubSeq(fmt, 1, 2) = WholeMatch
    THEN matched \o Format(SubSeq(fmt, 3, Len(fmt)), matched)
    ELSE << Head(fmt) >> \o Format(Tail(fmt), matched)

\* regex_replace(out, first, last, re, fmt, flags): regex_iterator over
\* [first, last), each prefix then the formatted match, then the rest
RECURSIVE RegexReplaceFrom(_, _, _, _, _, _, _)
RegexReplaceFrom(text, pos, lastM, last, re, fmt, notInitialNull) ==
    LET m == regex_search(text, pos, last, re, notInitialNull)
    IN  IF m = NoMatch
        THEN Sub(text, lastM, last)
        ELSE Sub(text, lastM, m.first)
             \o Format(fmt, Sub(text, m.first, m.second))
             \o RegexReplaceFrom(text, m.second, m.second, last, re, fmt,
                                 m.second = m.first)

regex_replace(text, first, last, re, fmt) ==
    RegexReplaceFrom(text, first, first, last, re, fmt, FALSE)

(***************************************************************************)
(* The line index (TextOffset for the byte matcher; CTextFile keeps the    *)
(* same index for the text matcher).  Line 1 starts at offset 0, a line    *)
(* break is "\n", "\r" or "\r\n", the column is 1 at the start of a line. *)
(* The text of a line leaves its line break out.                           *)
(***************************************************************************)
ChLF == 10
ChCR == 13

\* the unit at offset i is the last unit of a line break
EndsBreak(text, i) ==
    \/ text[i + 1] = ChLF
    \/ text[i + 1] = ChCR /\ ~(i + 1 < Len(text) /\ text[i + 2] = ChLF)

\* the line of offset pos: one more than the line breaks that end before it
LineFromPosition(text, pos) ==
    1 + Cardinality({i \in 0..(pos - 1) : i < Len(text) /\ EndsBreak(text, i)})

\* the offset at which a line starts; the end of the text for a line that
\* is not there
LineStart(text, line) ==
    LET starts == {b \in 0..Len(text) : /\ (b = 0 \/ EndsBreak(text, b - 1))
                                         /\ LineFromPosition(text, b) = line}
    IN  IF starts = {} THEN Len(text) ELSE CHOOSE b \in starts : TRUE

\* the offset at which the line that starts at lineStart ends: its line
\* break, or the end of the text
LineEnd(text, lineStart) ==
    LET breaks == {i \in lineStart..(Len(text) - 1) : text[i + 1] \in {ChLF, ChCR}}
    IN  IF breaks = {} THEN Len(text)
        ELSE CHOOSE i \in breaks : \A j \in breaks : i <= j

PositionsFromLine(text, line) ==
    LET lineStart == LineStart(text, line)
    IN  << lineStart, LineEnd(text, lineStart) >>

ColumnFromPosition(text, pos, line) ==
    pos - LineStart(text, line) + 1

\* CTextFile::GetLineString
GetLineString(text, line) ==
    LET linePos == PositionsFromLine(text, line)
    IN  Sub(text, linePos[1], linePos[2])

\* static_cast<DWORD> of a difference of sizes: the value modulo the width
\* of a DWORD, 16 bits here for the 32 of the source
DWordBits == 16
DWord(n) == n % (2 ^ DWordBits)

\* lines longer than this are not kept (line 4582)
MaxLineLength == 4096

Min(a, b) == IF a < b THEN a ELSE b

\* LineTriples with the column of the hit kept on every line
RECURSIVE LineTriples_KeepColumn(_, _, _, _, _)
LineTriples_KeepColumn(text, l, lineEnd, colMatch, lenMatch) ==
    IF l > lineEnd THEN << >>
    ELSE LET sLine == GetLineString(text, l)
             full == Len(sLine) - colMatch + 1
             lenLineMatch == IF lenMatch < full THEN lenMatch ELSE full
             more == lenMatch > lenLineMatch
         IN  << << l, colMatch, lenLineMatch >> >>
             \o LineTriples_KeepColumn(text, l + 1, lineEnd, colMatch,
                            IF more THEN lenMatch - lenLineMatch ELSE lenMatch)

\* SearchOnTextFile, lines 4227-4247: the triples of one hit, line by line
RECURSIVE LineTriples(_, _, _, _, _)
LineTriples(text, l, lineEnd, colMatch, lenMatch) ==
    IF l > lineEnd THEN << >>
    ELSE LET sLine == GetLineString(text, l)
             full == Len(sLine) - colMatch + 1
             lenLineMatch == IF lenMatch < full THEN lenMatch ELSE full
             more == lenMatch > lenLineMatch
         IN  << << l, colMatch, lenLineMatch >> >>
             \o LineTriples(text, l + 1, lineEnd,
                            IF more THEN 1 ELSE colMatch,
                            IF more THEN lenMatch - lenLineMatch ELSE lenMatch)

\* SearchOnTextFile, lines 4206-4248: the triples pushed for the hit at
\* offset pos of length len when matchLinesMap has no entry for its lines
HitTriples(text, pos, len, capture, fmt) ==
    LET posMatchTail == IF len > 0 THEN pos + len - 1 ELSE pos
        lineStart == LineFromPosition(text, pos)
        lineEnd == LineFromPosition(text, posMatchTail)
        colMatch == ColumnFromPosition(text, pos, lineStart)
    IN  IF capture
        THEN << << lineStart, colMatch, Len(Format(fmt, Sub(text, pos, pos + len))) >> >>
        ELSE LineTriples(text, lineStart, lineEnd, colMatch, len)

\* SearchByFilePath, lines 4571-4614: entry mp of the arrays is read as an
\* offset and a length and rewritten as a line and a column; the result is
\* the new line, the new column and the length pushed
Resolve(text, pos, lenMatchLength) ==
    LET line == LineFromPosition(text, pos)
        col == ColumnFromPosition(text, pos, line)
        linePos == PositionsFromLine(text, line)
        lineLength == linePos[2] - linePos[1]
    IN  << line, col,
           IF lineLength > 0 /\ lineLength < MaxLineLength
           THEN Min(lenMatchLength, DWord(lineLength - col))
           ELSE 0 >>

\* SearchByFilePath, lines 4571-4614, from entry mp on: the entry is read as
\* an offset and a length and rewritten as a line and a column, a length is
\* pushed, and matchLinesMap gets the text of the line under the OFFSET as
\* key when the line is kept, the empty text otherwise.  wide is the
\* wchar_t instance, which takes the length from the text the map holds.
RECURSIVE ResolveFrom(_, _, _, _)
ResolveFrom(text, wide, sInfo, mp) ==
    IF mp > Len(sInfo.matchLinesNumbers) THEN sInfo
    ELSE LET pos == sInfo.matchLinesNumbers[mp]
             line == LineFromPosition(text, pos)
             col == ColumnFromPosition(text, pos, line)
             linePos == PositionsFromLine(text, line)
             lineLength == linePos[2] - linePos[1]
             kept == lineLength > 0 /\ lineLength < MaxLineLength
             raw == Sub(text, linePos[1], linePos[2])
             sLine == IF wide
                      THEN (IF sInfo.encoding = Unicode_Be THEN utf16Swap(raw) ELSE raw)
                      ELSE ConvertToWstring(raw, sInfo.encoding)
             map == IF kept
                    THEN sInfo.matchLinesMap @@ (pos :> sLine)
                    ELSE (pos :> << >>) @@ sInfo.matchLinesMap
             have == IF wide THEN Len(map[pos]) ELSE lineLength
             lenMatchLength == IF kept
                               THEN Min(sInfo.matchColumnsNumbers[mp], DWord(have - col))
                               ELSE 0
         IN  ResolveFrom(text, wide,
                         [sInfo EXCEPT !.matchLinesNumbers[mp] = line,
                                       !.matchColumnsNumbers[mp] = col,
                                       !.matchLengths = Append(@, lenMatchLength),
                                       !.matchLinesMap = map],
                         mp + 1)

(***************************************************************************)
(* The scan loop shared by SearchOnTextFile (lines 4195-4276) and          *)
(* SearchByFilePath (lines 4481-4543).  A job fixes the buffer and the     *)
(* compiled expression; csz is 0 for the decoded wide string of the text   *)
(* matcher, 1 for SearchByFilePath<char>, 2 for SearchByFilePath<wchar_t>. *)
(* One step is one evaluation of the inner while condition with its body,  *)
(* or the block tail with the test of the outer loop; each reads           *)
(* m_cancelled once.                                                       *)
(***************************************************************************)
BlockUnits(csz) == SEARCHBLOCKSIZE \div (IF csz = 1 THEN 1 ELSE 2)

\* what n units add to the output: the wide string of the text matcher and
\* the bytes of the char matcher take them as they are, the wchar_t matcher
\* writes two bytes per unit
Emit(csz, units) == IF csz = 2 THEN WideBytes(units) ELSE units

ScanInit(text, csz, written) ==
    [ startIter  |-> 0,
      blockEnd   |-> Len(text) % BlockUnits(csz),
      nFound     |-> 0,
      matchCount |-> 0,
      hitPos     |-> << >>,
      hitLen     |-> << >>,
      out        |-> written,
      phase      |-> "inner" ]

\* ScanInner without the step over a zero-width hit (lines 4257-4264)
ScanInner_NoAdvance(st, job, cfg, cancelled) ==
    LET m == regex_search(job.text, st.startIter, st.blockEnd, job.re, FALSE)
    IN  IF cancelled \/ ~(st.startIter < st.blockEnd) \/ m = NoMatch
        THEN [st EXCEPT !.phase = "tail"]
        ELSE IF cfg.notSearch
        THEN [st EXCEPT !.nFound = @ + 1, !.phase = "tail"]
        ELSE [st EXCEPT !.nFound = @ + 1,
                        !.matchCount = @ + 1,
                        !.hitPos = Append(@, m.first),
                        !.hitLen = Append(@, m.second - m.first),
                        !.startIter = m.second]

ScanInner(st, job, cfg, cancelled) ==
    LET text == job.text
        m == regex_search(text, st.startIter, st.blockEnd, job.re, FALSE)
        zero == m.second = m.first
        atEnd == zero /\ m.second = st.blockEnd
        out1 == IF cfg.replace
                THEN st.out \o Emit(job.csz, Sub(text, st.startIter, m.first))
                            \o Emit(job.csz, regex_replace(text, m.first, m.second, job.re, job.fmt))
                ELSE st.out
        out2 == IF zero /\ ~atEnd /\ cfg.replace
                THEN out1 \o Emit(job.csz, << text[m.second + 1] >>)
                ELSE out1
    IN  IF cancelled \/ ~(st.startIter < st.blockEnd) \/ m = NoMatch
        THEN [st EXCEPT !.phase = "tail"]
        ELSE IF cfg.notSearch
        THEN [st EXCEPT !.nFound = @ + 1, !.phase = "tail"]
        ELSE [st EXCEPT !.nFound = @ + 1,
                        !.matchCount = @ + 1,
                        !.hitPos = Append(@, m.first),
                        !.hitLen = Append(@, m.second - m.first),
                        !.out = out2,
                        !.startIter = IF zero /\ ~atEnd THEN m.second + 1 ELSE m.second,
                        !.phase = IF atEnd THEN "tail" ELSE "inner"]

ScanTail(st, job, cfg, cancelled) ==
    LET rest == st.startIter < st.blockEnd
        out1 == IF rest /\ cfg.replace
                THEN st.out \o Emit(job.csz, Sub(job.text, st.startIter, st.blockEnd))
                ELSE st.out
        s1 == IF rest THEN st.blockEnd ELSE st.startIter
    IN  IF st.blockEnd < Len(job.text)
        THEN [st EXCEPT !.out = out1, !.startIter = s1,
                        !.blockEnd = @ + BlockUnits(job.csz),
                        !.phase = IF cancelled THEN "done" ELSE "inner"]
        ELSE [st EXCEPT !.out = out1, !.startIter = s1, !.phase = "done"]

ScanStep(st, job, cfg, cancelled) ==
    IF st.phase = "inner" THEN ScanInner(st, job, cfg, cancelled)
    ELSE ScanTail(st, job, cfg, cancelled)

\* the whole scan loop from state st: the first k reads of m_cancelled see
\* it clear, the later ones see it set
RECURSIVE RunScan(_, _, _, _)
RunScan(st, job, cfg, k) ==
    IF st.phase = "done" THEN st
    ELSE RunScan(ScanStep(st, job, cfg, k = 0), job, cfg, IF k = 0 THEN 0 ELSE k - 1)

\* the scan loop after k steps that read the flag as clear
RECURSIVE AfterSteps(_, _, _, _)
AfterSteps(st, job, cfg, k) ==
    IF k = 0 \/ st.phase = "done" THEN st
    ELSE AfterSteps(ScanStep(st, job, cfg, FALSE), job, cfg, k - 1)

\* number of steps of the scan loop when the flag stays clear
RECURSIVE StepsOf(_, _, _)
StepsOf(st, job, cfg) ==
    IF st.phase = "done" THEN 0 ELSE 1 + StepsOf(ScanStep(st, job, cfg, FALSE), job, cfg)

\* the ways the scan loop can end: the flag only goes from clear to set
\* during a run, so when it is set as the loop ends, any number of the
\* loop's reads may have come before it was set
ScanOutcomes(st, job, cfg, cancelled) ==
    LET n == StepsOf(st, job, cfg)
    IN  { [st |-> RunScan(st, job, cfg, n), saw |-> FALSE] } \cup
        (IF cancelled
         THEN { [st |-> RunScan(st, job, cfg, k), saw |-> TRUE] : k \in 0..(n - 1) }
         ELSE {})

(***************************************************************************)
(* The file system the run works on: one search root with two files and    *)
(* one sub directory.  A path is the entry name plus the suffixes the      *)
(* engine appends (".grepwinreplaced", ".bak"); dir is the folder below    *)
(* the root, "grepWin_backup" for backups kept in a folder.                *)
(***************************************************************************)
MaxDepth == 1

Names == {"d", "f1", "f2"}
Suffixes == {"grepwinreplaced", "bak"}

RECURSIVE SeqsUpTo(_, _)
SeqsUpTo(S, n) ==
    IF n = 0 THEN { << >> }
    ELSE LET shorter == SeqsUpTo(S, n - 1)
         IN  shorter \cup {Append(q, x) : q \in {r \in shorter : Len(r) = n - 1}, x \in S}

\* a directory below the root that can hold an entry, named as the temp file
\* of f1 is
SubDir == "f1.grepwinreplaced"

Paths ==
    [dir : {"", "grepWin_backup"}, name : Names, sfx : SeqsUpTo(Suffixes, MaxDepth + 1)]
    \cup [dir : {SubDir}, name : {"f2"}, sfx : SeqsUpTo(Suffixes, MaxDepth + 1)]

PathOf(n) == [dir |-> "", name |-> n, sfx |-> << >>]

NoFile == [exists |-> FALSE]

\* a file that was there when the run started: time stands for its creation,
\* access and write times, 0 for the times it had then
File(data, attr) ==
    [exists |-> TRUE, folder |-> FALSE, data |-> data, attr |-> attr, time |-> 0]

\* a file the program writes during the run, with the times of the writing
Written(data) == [File(data, {}) EXCEPT !.time = 1]
Folder(attr) == [exists |-> TRUE, folder |-> TRUE, data |-> << >>, attr |-> attr]

\* f1 is plain text "ab", f2 is hidden and holds "ab" as UTF-16LE
InitialFs ==
    [p \in Paths |->
        IF p = PathOf("f1") THEN File(<< 1, 2 >>, {})
        ELSE IF p = PathOf("f2") THEN File(<< 1, 0, 2, 0 >>, {"hidden"})
        ELSE IF p = PathOf("d") THEN Folder({})
        ELSE NoFile]

\* the position of a path in the order the enumerator returns the entries
\* of the root: by name, as the directory index keeps them
NameRank(n) == CASE n = "d" -> 0 [] n = "f1" -> 1 [] n = "f2" -> 2 [] OTHER -> 3

RECURSIVE SfxKey(_, _)
SfxKey(sfx, k) ==
    IF k = 0 THEN 0
    ELSE IF sfx = << >> THEN 0
    ELSE (IF Head(sfx) = "bak" THEN 1 ELSE 2) * (3 ^ (k - 1)) + SfxKey(Tail(sfx), k - 1)

\* the rank of an entry among the entries of its directory
RootKey(name, sfx) == NameRank(name) * (3 ^ (MaxDepth + 1)) + SfxKey(sfx, MaxDepth + 1)

\* depth first: an entry of a directory comes after the directory and before
\* the next entry of the root; the backup folder comes last
Key(p) ==
    LET width == 4 * (3 ^ (MaxDepth + 1)) + 1
    IN  IF p.dir = "" THEN RootKey(p.name, p.sfx) * width
        ELSE IF p.dir = SubDir
        THEN RootKey("f1", << "grepwinreplaced" >>) * width + 1 + RootKey(p.name, p.sfx)
        ELSE 4 * (3 ^ (MaxDepth + 1)) * width + 1 + RootKey(p.name, p.sfx)

\* the name a directory has in the dir field of its entries
DirName(p) == IF p.name = "f1" /\ p.sfx = << "grepwinreplaced" >> THEN SubDir ELSE p.name

(***************************************************************************)
(* The settings SaveSettings reads from the dialog before a run, and the   *)
(* requests the model issues.                                              *)
(***************************************************************************)
IDOK == "IDOK"
IDC_REPLACE == "IDC_REPLACE"
IDC_INVERSESEARCH == "IDC_INVERSESEARCH"
IDC_CAPTURESEARCH == "IDC_CAPTURESEARCH"

\* the roots a search path can name: the directory that holds the entries of
\* the model, a file in it, and a path that does not exist
RootDir == "R"
RootMissing == "x"
RootRelative == "rel"

\* a root that names the backup file of f1
RootBackup == "f1.bak"

\* the entry a root other than RootDir names
RootPath(root) ==
    IF root = RootBackup THEN [PathOf("f1") EXCEPT !.sfx = << "bak" >>] ELSE PathOf(root)

PathFileExists(root, files) ==
    \/ root = RootDir
    \/ root \in Names \cup {RootBackup} /\ files[RootPath(root)].exists

PathIsDirectory(root, files) ==
    \/ root = RootDir
    \/ /\ root \in Names \cup {RootBackup}
       /\ files[RootPath(root)].exists
       /\ files[RootPath(root)].folder

\* isRegexValid (lines 255-267) in the expression language of the model
isRegexValid(searchString) == searchString = << >> \/ Head(searchString) # ChStar

\* m_searchValidLength as the handler of a change of the search text or of a
\* click on a radio button computes it (lines 1636-1655); regexRadio is the
\* state of the regex radio button at that time
Validate(searchString, regexRadio) ==
    IF regexRadio /\ Len(searchString) > 0 /\ ~isRegexValid(searchString)
    THEN -1
    ELSE Len(searchString)

\* The controls of the dialog.  searchValidLength is what the last
\* validation left in m_searchValidLength: selecting a bookmark sets the
\* search text, which is validated under the radio button as it was, and
\* then checks the radio button without a validation (lines 1238-1240), so
\* the value is the one computed with the text radio button checked unless
\* a request says otherwise.
Dialog(searchString, bUseRegex, bCreateBackup, bIncludeBinary, bIncludeHidden) ==
    [ searchString |-> searchString, bUseRegex |-> bUseRegex,
      bCreateBackup |-> bCreateBackup, backupInFolder |-> FALSE,
      bKeepFileDate |-> FALSE, bForceBinary |-> FALSE,
      bIncludeBinary |-> bIncludeBinary, bIncludeHidden |-> bIncludeHidden,
      bIncludeSystem |-> FALSE, bIncludeSubfolders |-> TRUE, bAllSize |-> TRUE,
      sizeCmp |-> 0, lSize |-> 0, searchPath |-> << RootDir >>,
      searchValidLength |-> Validate(searchString, FALSE),
      replaceString |-> ReplaceString ]

\* counting, search, inverse search, replace with and without backup,
\* capture search, and a search for an expression that does not compile
Requests ==
    { [id |-> IDOK,              s |-> Dialog(<< >>, FALSE, FALSE, FALSE, FALSE)],
      [id |-> IDOK,              s |-> Dialog(<< 1 >>, TRUE, FALSE, FALSE, TRUE)],
      [id |-> IDC_INVERSESEARCH, s |-> Dialog(<< 1 >>, TRUE, FALSE, FALSE, TRUE)],
      [id |-> IDC_REPLACE,       s |-> Dialog(<< 1 >>, FALSE, TRUE, FALSE, FALSE)],
      [id |-> IDC_REPLACE,       s |-> Dialog(<< 1 >>, TRUE, FALSE, FALSE, TRUE)],
      [id |-> IDC_CAPTURESEARCH, s |-> Dialog(<< 1 >>, TRUE, TRUE, TRUE, TRUE)],
      [id |-> IDOK,              s |-> Dialog(<< ChStar >>, TRUE, FALSE, FALSE, FALSE)] }

CommandIds == {IDOK, IDC_REPLACE, IDC_INVERSESEARCH, IDC_CAPTURESEARCH}

NoSettings == Dialog(<< >>, FALSE, FALSE, FALSE, FALSE)

(***************************************************************************)
(* State.                                                                  *)
(***************************************************************************)
VARIABLES
    m_dwThreadRunning,      \* a search thread is running
    m_cancelled,            \* the cancel flag
    m_bReplace, m_bNotSearch, m_bCaptureSearch,
    m_searchString, m_replaceString,
    settings,               \* the other request parameters
    m_backupAndTempFiles,   \* the in-flight set
    m_totalItems, m_searchedItems, m_totalMatches,
    threadsStarted,         \* number of runs requested so far
    fs,                     \* path -> file
    brackets,               \* the Start and End messages handled since the last Start
    events,                 \* path -> the messages about it handled since the last Start
    walker,                 \* SearchThread: position and locals
    tasks,                  \* queue of the thread pool
    workers,                \* pool thread -> position and locals of SearchFile
    enumerated,             \* paths NextFile has returned in this run
    entered,                \* paths for which the walker's loop body ran
    skipped,                \* paths the walker skipped as in-flight
    created,                \* temp and backup files created in this run
    returned,               \* path -> what its task had found when it returned
    mJob, mSt, mCancelled, mRet   \* one matcher call on its own

engineVars == << m_dwThreadRunning, m_cancelled, m_bReplace, m_bNotSearch,
                 m_bCaptureSearch, m_searchString, m_replaceString, settings,
                 m_backupAndTempFiles, m_totalItems, m_searchedItems, m_totalMatches,
                 threadsStarted, fs, brackets, events, walker, tasks, workers,
                 enumerated, entered, skipped, created, returned >>

matchVars == << mJob, mSt, mCancelled, mRet >>

vars == << engineVars, matchVars >>

NumWorkers == 2
MaxQueue == 1
Workers == 1..NumWorkers

\* the threads that send messages: the pool threads are 1..NumWorkers
WalkerThread == 0
DialogThread == -1

TempOf(p) == [p EXCEPT !.sfx = Append(@, "grepwinreplaced")]
BakOf(p, s) ==
    IF s.backupInFolder
    THEN [p EXCEPT !.dir = "grepWin_backup"]
    ELSE [p EXCEPT !.sfx = Append(@, "bak")]

NoPath == [dir |-> "", name |-> "", sfx |-> << >>]

\* a matchLinesMap without entries
NoLines == [l \in {} |-> << >>]

\* CSearchInfo; hitCoords is the line and the column of each hit as the index
\* gave them when the hit was stored, hitFormats the formatted replacement
\* of each hit of a capture search of the text matcher, hitSpans the first
\* line, the last line, the column and the length of each hit of the text
\* matcher with the lengths of the lines of the text up to its last line
SearchInfo(p, f) ==
    [ filePath |-> p, folder |-> f.folder, fileSize |-> Len(f.data),
      encoding |-> AutoType, readError |-> FALSE, exception |-> FALSE,
      hasBackedup |-> FALSE, matchCount |-> 0, matchLinesNumbers |-> << >>,
      matchColumnsNumbers |-> << >>, matchLengths |-> << >>, hitCoords |-> << >>,
      hitFormats |-> << >>, hitSpans |-> << >>, matchLinesMap |-> NoLines ]

NoInfo == SearchInfo(NoPath, File(<< >>, {}))

NoJob == [text |-> << >>, re |-> basic_regex(<< >>), fmt |-> << >>, csz |-> 0]
NoScan == ScanInit(<< >>, 0, << >>)

\* hits: what the matcher calls of the task counted; scanned: a scan loop of
\* the task ran to its end without reading the flag as set; tested: what the
\* test of the flag after the scan loop read; threw: the regex engine has
\* thrown in a matcher call of the task
\* line 4118: the attempts to write the times back
CountDownStart == 5

IdleWorker ==
    [ pc |-> "idle", sInfo |-> NoInfo, type |-> AutoType, bLoadResult |-> FALSE,
      nCount |-> -1, loop |-> "none", tries |-> << >>, misaligned |-> FALSE,
      job |-> NoJob, st |-> NoScan, inData |-> << >>, skipSize |-> 0,
      dropSize |-> 0, bAdopt |-> FALSE, caller |-> "none", origAttributes |-> {},
      lastWriteTime |-> 0, countDown |-> CountDownStart,
      hits |-> 0, scanned |-> FALSE, tested |-> "none", threw |-> FALSE ]

IdleWalker ==
    [ pc |-> "idle", sPath |-> NoPath, findData |-> NoFile, bSearch |-> FALSE,
      last |-> -1, pathVector |-> << >>, bCountingOnly |-> FALSE,
      bRecurse |-> FALSE, prevDir |-> "", opened |-> {},
      returning |-> 0 ]

NoReturn == [done |-> FALSE, nCount |-> 0, hits |-> 0, exception |-> FALSE, tested |-> "none",
             scanned |-> FALSE]

Msg(kind, p, by, wParam, info) ==
    [kind |-> kind, path |-> p, by |-> by, wParam |-> wParam, info |-> info]

\* the dialog's handlers of SEARCH_START, SEARCH_PROGRESS (lines 1019-1058)
TotalAfter(kind, total) ==
    IF kind = "Start" THEN 0 ELSE IF kind = "Progress" THEN total + 1 ELSE total
SearchedAfter(kind, wParam, searched) ==
    IF kind = "Start" THEN 0
    ELSE IF kind = "Progress" /\ wParam # 0 THEN searched + 1 ELSE searched
\* the SEARCH_START handler without the reset of line 1023
MatchesAfter_NoReset(kind, info, matches) ==
    IF kind = "Found" THEN matches + info.matchCount ELSE matches

MatchesAfter(kind, info, matches) ==
    IF kind = "Start" THEN 0
    ELSE IF kind = "Found" THEN matches + info.matchCount ELSE matches

\* SendMessage: the sender waits until the dialog thread has handled it
SendMessage(kind, p, by, wParam, info) ==
    /\ IF kind = "Start"
       THEN /\ brackets' = << Msg(kind, p, by, wParam, info) >>
            /\ events' = [q \in Paths |-> << >>]
       ELSE IF kind = "End"
       THEN /\ brackets' = Append(brackets, Msg(kind, p, by, wParam, info))
            /\ UNCHANGED events
       ELSE /\ events' = [events EXCEPT ![p] = Append(@, Msg(kind, p, by, wParam, info))]
            /\ UNCHANGED brackets
    /\ m_totalItems' = TotalAfter(kind, m_totalItems)
    /\ m_searchedItems' = SearchedAfter(kind, wParam, m_searchedItems)
    /\ m_totalMatches' = MatchesAfter(kind, info, m_totalMatches)

InitEngineOn(files) ==
    /\ m_dwThreadRunning = FALSE
    /\ m_cancelled = FALSE
    /\ m_bReplace = FALSE
    /\ m_bNotSearch = FALSE
    /\ m_bCaptureSearch = FALSE
    /\ m_searchString = << >>
    /\ m_replaceString = << >>
    /\ settings = NoSettings
    /\ m_backupAndTempFiles = {}
    /\ m_totalItems = 0
    /\ m_searchedItems = 0
    /\ m_totalMatches = 0
    /\ threadsStarted = 0
    /\ fs = files
    /\ brackets = << >>
    /\ events = [p \in Paths |-> << >>]
    /\ walker = IdleWalker
    /\ tasks = << >>
    /\ workers = [w \in Workers |-> IdleWorker]
    /\ enumerated = {}
    /\ entered = {}
    /\ skipped = {}
    /\ created = {}
    /\ returned = [p \in Paths |-> NoReturn]

InitEngine == InitEngineOn(InitialFs)

Init ==
    /\ InitEngine
    /\ mJob = NoJob
    /\ mSt = NoScan
    /\ mCancelled = FALSE
    /\ mRet = -2

(***************************************************************************)
(* The dialog thread.                                                      *)
(***************************************************************************)
\* SaveSettings (lines 3378-3470) returns false for a regex search whose
\* expression the last validation found invalid (lines 3423-3431, isSearchValid
\* lines 388-392); the name patterns and the exclude-dirs expression of the
\* requests of the model are empty
SaveSettings(s) ==
    ~(s.bUseRegex /\ s.searchString # << >> /\ s.searchValidLength < 0)

\* PathIsRelative of the search path (line 1293): of its first root, and of
\* the empty path
PathIsRelative(searchPath) ==
    searchPath = << >> \/ Head(searchPath) = RootRelative

\* DoCommand for IDOK, IDC_REPLACE, IDC_INVERSESEARCH, IDC_CAPTURESEARCH
\* (lines 1273-1451).  shift is the state of the shift key, confirmed the
\* answer to the message box asked before a replace without backup, and
\* threadOk whether CreateThread succeeded.
\* the runs of one behaviour
MaxRuns == 2

DoCommand(id, s, shift, confirmed, threadOk) ==
    IF m_dwThreadRunning
    THEN /\ m_cancelled' = TRUE
         /\ UNCHANGED << m_dwThreadRunning, m_bReplace, m_bNotSearch, m_bCaptureSearch,
                         m_searchString, m_replaceString, settings, m_backupAndTempFiles,
                         m_totalItems, m_searchedItems, m_totalMatches, threadsStarted, fs, brackets,
                         events, walker, tasks, workers, enumerated, entered, skipped,
                         created, returned, matchVars >>
    ELSE IF ~SaveSettings(s)
    THEN \* line 1286: the fields read before the check are kept
         /\ threadsStarted < MaxRuns
         /\ settings' = [settings EXCEPT !.searchPath = s.searchPath,
                                         !.searchString = s.searchString,
                                         !.bUseRegex = s.bUseRegex,
                                         !.searchValidLength = s.searchValidLength,
                                         !.replaceString = s.replaceString]
         /\ m_searchString' = s.searchString
         /\ m_replaceString' = s.replaceString
         /\ UNCHANGED << m_dwThreadRunning, m_cancelled, m_bReplace, m_bNotSearch,
                         m_bCaptureSearch, m_backupAndTempFiles, m_totalItems,
                         m_searchedItems, m_totalMatches, threadsStarted, fs, brackets, events, walker,
                         tasks, workers, enumerated, entered, skipped, created,
                         returned, matchVars >>
    ELSE IF PathIsRelative(s.searchPath)
    THEN \* lines 1293-1297
         /\ threadsStarted < MaxRuns
         /\ settings' = s
         /\ m_searchString' = s.searchString
         /\ m_replaceString' = s.replaceString
         /\ UNCHANGED << m_dwThreadRunning, m_cancelled, m_bReplace, m_bNotSearch,
                         m_bCaptureSearch, m_backupAndTempFiles, m_totalItems,
                         m_searchedItems, m_totalMatches, threadsStarted, fs, brackets, events, walker,
                         tasks, workers, enumerated, entered, skipped, created,
                         returned, matchVars >>
    ELSE \* lines 1300-1309: a root that does not exist is reported, and the
         \* break leaves the loop over the roots only
         LET replace == id = IDC_REPLACE
             asked == replace /\ ~s.bCreateBackup
             capture == id = IDC_CAPTURESEARCH
             notSearch == (shift \/ id = IDC_INVERSESEARCH) /\ ~capture /\ ~replace
         IN  /\ threadsStarted < MaxRuns
             /\ settings' = s
             /\ m_searchString' = s.searchString
             /\ m_replaceString' = s.replaceString
             /\ m_backupAndTempFiles' = {}
             /\ m_bReplace' = (replace /\ ~capture)
             /\ IF asked /\ ~confirmed
                THEN \* the user declined: the command ends here
                     /\ m_totalItems' = 0
                     /\ m_searchedItems' = 0
                     /\ UNCHANGED m_totalMatches
                     /\ UNCHANGED << m_dwThreadRunning, m_cancelled, m_bNotSearch,
                                     m_bCaptureSearch, threadsStarted, brackets, walker,
                                     enumerated, entered, skipped, created, returned >>
                ELSE /\ m_bNotSearch' = notSearch
                     /\ m_bCaptureSearch' = capture
                     /\ m_dwThreadRunning' = TRUE
                     /\ m_cancelled' = FALSE
                     /\ threadsStarted' = threadsStarted + 1
                     /\ m_totalItems' = 0
                     /\ m_searchedItems' = 0
                     /\ UNCHANGED m_totalMatches
                     \* what is kept of the walk of the run before is dropped
                     /\ enumerated' = {}
                     /\ entered' = {}
                     /\ skipped' = {}
                     /\ created' = {}
                     /\ returned' = [p \in Paths |-> NoReturn]
                     /\ IF threadOk
                        THEN /\ walker' = [IdleWalker EXCEPT !.pc = "start",
                                                             !.returning = walker.returning]
                             /\ UNCHANGED brackets
                        ELSE /\ brackets' = Append(brackets, Msg("End", NoPath, DialogThread, 0, NoInfo))
                             /\ UNCHANGED walker
             /\ UNCHANGED << fs, events, tasks, workers, matchVars >>

\* a search command while no run is on, with the settings of the dialog
StartCommand ==
    /\ ~m_dwThreadRunning
    /\ threadsStarted = 0
    /\ \E r \in Requests, shift \in BOOLEAN, confirmed \in BOOLEAN, threadOk \in BOOLEAN :
          DoCommand(r.id, r.s, shift, confirmed, threadOk)

\* a search command while a run is on
StopCommand ==
    /\ m_dwThreadRunning
    /\ \E id \in CommandIds : DoCommand(id, settings, FALSE, TRUE, TRUE)

\* WM_CLOSE (lines 860-865) and IDCANCEL (lines 1461-1462) while a run is on
OnClose ==
    /\ m_dwThreadRunning
    /\ m_cancelled' = TRUE
    /\ UNCHANGED << m_dwThreadRunning, m_bReplace, m_bNotSearch, m_bCaptureSearch,
                    m_searchString, m_replaceString, settings, m_backupAndTempFiles,
                    m_totalItems, m_searchedItems, m_totalMatches, threadsStarted, fs, brackets, events,
                    walker, tasks, workers, enumerated, entered, skipped, created,
                    returned, matchVars >>

(***************************************************************************)
(* The walker: SearchThread (lines 3599-3813).                             *)
(***************************************************************************)
\* MatchPath with the empty pattern list of the requests of the model
\* (m_patternRegex is empty as well)
MatchPath(p) == TRUE

\* FilterEntry with the size predicate applied to files only
FilterEntry_SizeFilesOnly(p, fd, s, bCountingOnly, searchRootIsDir) ==
    LET visible == /\ (s.bIncludeHidden \/ "hidden" \notin fd.attr)
                   /\ (s.bIncludeSystem \/ "system" \notin fd.attr)
        named == IF fd.folder THEN s.bIncludeSubfolders ELSE MatchPath(p)
        fullFileSize == Len(fd.data)
        sized == \/ s.bAllSize
                 \/ (s.sizeCmp = 0 /\ fullFileSize < s.lSize)
                 \/ (s.sizeCmp = 1 /\ fullFileSize = s.lSize)
                 \/ (s.sizeCmp = 2 /\ fullFileSize > s.lSize)
                 \/ s.sizeCmp \notin {0, 1, 2}
    IN  IF ~searchRootIsDir THEN TRUE
        ELSE IF ~visible THEN FALSE
        ELSE IF named /\ ~fd.folder THEN sized
        ELSE named

\* FilterEntry with the filters applied under a root that is a file too
FilterEntry_RootFiltered(p, fd, s, bCountingOnly, searchRootIsDir) ==
    LET visible == /\ (s.bIncludeHidden \/ "hidden" \notin fd.attr)
                   /\ (s.bIncludeSystem \/ "system" \notin fd.attr)
        named == IF fd.folder THEN s.bIncludeSubfolders ELSE MatchPath(p)
        fullFileSize == Len(fd.data)
        sized == \/ s.bAllSize
                 \/ (s.sizeCmp = 0 /\ fullFileSize < s.lSize)
                 \/ (s.sizeCmp = 1 /\ fullFileSize = s.lSize)
                 \/ (s.sizeCmp = 2 /\ fullFileSize > s.lSize)
                 \/ s.sizeCmp \notin {0, 1, 2}
    IN  IF ~visible THEN FALSE
        ELSE IF named /\ (~fd.folder \/ bCountingOnly) THEN sized
        ELSE named

\* bSearch as lines 3683-3773 compute it for an entry with find data fd
FilterEntry(p, fd, s, bCountingOnly, searchRootIsDir) ==
    LET visible == /\ (s.bIncludeHidden \/ "hidden" \notin fd.attr)
                   /\ (s.bIncludeSystem \/ "system" \notin fd.attr)
        named == IF fd.folder THEN s.bIncludeSubfolders ELSE MatchPath(p)
        fullFileSize == Len(fd.data)
        sized == \/ s.bAllSize
                 \/ (s.sizeCmp = 0 /\ fullFileSize < s.lSize)
                 \/ (s.sizeCmp = 1 /\ fullFileSize = s.lSize)
                 \/ (s.sizeCmp = 2 /\ fullFileSize > s.lSize)
                 \/ s.sizeCmp \notin {0, 1, 2}
    IN  IF ~searchRootIsDir THEN TRUE
        ELSE IF ~visible THEN FALSE
        ELSE IF named /\ (~fd.folder \/ bCountingOnly) THEN sized
        ELSE named

\* line 3647: a local of SearchThread, set once before the first root
bCountingOnly == walker.bCountingOnly

\* bRecurse after the body of the loop for an entry that is not in flight
\* (lines 3685-3772): a root that is a file leaves it as it is, a visible
\* directory sets it to whether sub folders are included (the exclude
\* expression of the requests of the model is empty), a file and a hidden or
\* system entry clear it
RecurseAfter(fd, s, rootIsDir, bRecurse) ==
    IF ~rootIsDir THEN bRecurse
    ELSE /\ (s.bIncludeHidden \/ "hidden" \notin fd.attr)
         /\ (s.bIncludeSystem \/ "system" \notin fd.attr)
         /\ fd.folder
         /\ s.bIncludeSubfolders

walkerUnchanged ==
    UNCHANGED << m_cancelled, m_bReplace, m_bNotSearch, m_bCaptureSearch,
                 m_replaceString, settings, m_backupAndTempFiles, threadsStarted,
                 fs, workers, created, returned, matchVars >>

\* lines 3605-3621: the roots of the search path that exist, in the order
\* and as often as the search path names them
PathVector(searchPath, files) ==
    LET Exists(root) == PathFileExists(root, files)
    IN  SelectSeq(searchPath, Exists)

\* lines 3649-3667: the walker is at the next root of pathVector, or past
\* the last one; a new enumerator is made and bRecurse is set for it
AtRoot(wk, roots) ==
    [wk EXCEPT !.pc = IF roots = << >> THEN "wait" ELSE "next",
               !.pathVector = roots, !.last = -1,
               !.sPath = NoPath, !.findData = NoFile, !.bSearch = FALSE,
               !.bRecurse = /\ roots # << >>
                            /\ PathIsDirectory(Head(roots), fs)
                            /\ settings.bIncludeSubfolders,
               !.prevDir = "", !.opened = {}]

\* lines 3599-3670: the search path is split, the literal search string is
\* escaped (the replacement string of the model holds nothing
\* escapeForReplaceText changes), SEARCH_START is sent, the pool is created
\* and the enumerator of the first root is opened
ThreadStart ==
    /\ walker.pc = "start"
    /\ m_searchString' = IF settings.bUseRegex THEN m_searchString
                         ELSE escapeForRegexEx(m_searchString)
    /\ SendMessage("Start", NoPath, WalkerThread, 0, NoInfo)
    /\ walker' = [AtRoot(walker, PathVector(settings.searchPath, fs))
                      EXCEPT !.bCountingOnly = (m_searchString = << >>)]
    /\ UNCHANGED << m_dwThreadRunning, tasks, enumerated, entered, skipped >>
    /\ walkerUnchanged

\* lines 3653-3662
searchRootIsDir == PathIsDirectory(Head(walker.pathVector), fs)

\* the entries the enumerator of the current root has still to return: the
\* entries of a directory, or the file the root names
\* NextFile(sPath, &bIsDirectory, bRecurse): the enumerator enters the
\* directory it returned last when bRecurse is set
Opened ==
    IF walker.prevDir # "" /\ walker.bRecurse
    THEN walker.opened \cup {walker.prevDir}
    ELSE walker.opened

Ahead ==
    {q \in Paths : /\ fs[q].exists /\ Len(q.sfx) <= MaxDepth /\ Key(q) > walker.last
                   /\ (searchRootIsDir \/ q = RootPath(Head(walker.pathVector)))
                   /\ (q.dir \in {"", "grepWin_backup"} \/ q.dir \in Opened)}

\* NextFileEntry without the test of the cancel flag
NextFileEntry_NoCancelTest(p) ==
    /\ walker.pc = "next"
    /\ p \in Ahead
    /\ \A q \in Ahead : Key(p) <= Key(q)
    /\ enumerated' = enumerated \cup {p}
    /\ IF FALSE
       THEN /\ walker' = AtRoot(walker, Tail(walker.pathVector))
            /\ UNCHANGED entered
       ELSE /\ walker' = [walker EXCEPT !.pc = "check", !.sPath = p, !.findData = fs[p],
                                        !.last = Key(p), !.opened = Opened,
                                        !.prevDir = IF fs[p].folder THEN DirName(p) ELSE ""]
            /\ entered' = entered \cup {p}
    /\ UNCHANGED << m_dwThreadRunning, m_searchString, m_totalItems, m_searchedItems, m_totalMatches,
                    brackets, events, tasks, skipped >>
    /\ walkerUnchanged

\* line 3671: NextFile returns the next entry, then the cancel flag is
\* tested; when it is set the walker goes on to the next root (line 3649)
NextFileEntry(p) ==
    /\ walker.pc = "next"
    /\ p \in Ahead
    /\ \A q \in Ahead : Key(p) <= Key(q)
    /\ enumerated' = enumerated \cup {p}
    /\ IF m_cancelled
       THEN /\ walker' = AtRoot(walker, Tail(walker.pathVector))
            /\ UNCHANGED entered
       ELSE /\ walker' = [walker EXCEPT !.pc = "check", !.sPath = p, !.findData = fs[p],
                                        !.last = Key(p), !.opened = Opened,
                                        !.prevDir = IF fs[p].folder THEN DirName(p) ELSE ""]
            /\ entered' = entered \cup {p}
    /\ UNCHANGED << m_dwThreadRunning, m_searchString, m_totalItems, m_searchedItems, m_totalMatches,
                    brackets, events, tasks, skipped >>
    /\ walkerUnchanged

\* line 3671: NextFile returns false after the last entry of the root
NextFileEnd ==
    /\ walker.pc = "next"
    /\ Ahead = {}
    /\ walker' = AtRoot(walker, Tail(walker.pathVector))
    /\ UNCHANGED << m_dwThreadRunning, m_searchString, m_totalItems, m_searchedItems, m_totalMatches,
                    brackets, events, tasks, enumerated, entered, skipped >>
    /\ walkerUnchanged

\* CheckAndFilter without the SEARCH_PROGRESS of line 3796 for an entry the
\* filters reject
CheckAndFilter_NoProgress ==
    /\ walker.pc = "check"
    /\ IF walker.sPath \in m_backupAndTempFiles
       THEN /\ skipped' = skipped \cup {walker.sPath}
            /\ walker' = [walker EXCEPT !.pc = "next", !.sPath = NoPath,
                                        !.findData = NoFile, !.bSearch = FALSE]
       ELSE LET bSearch == FilterEntry(walker.sPath, walker.findData, settings, bCountingOnly,
                                           searchRootIsDir)
                isDir == walker.findData.folder
                pc == IF bSearch
                      THEN IF bCountingOnly THEN "found"
                           ELSE IF ~isDir THEN "enqueue" ELSE "next"
                      ELSE "next"
                bRecurse == RecurseAfter(walker.findData, settings, searchRootIsDir,
                                         walker.bRecurse)
            IN  /\ UNCHANGED skipped
                /\ walker' = IF pc = "next"
                             THEN [walker EXCEPT !.pc = "next", !.sPath = NoPath,
                                                 !.findData = NoFile, !.bSearch = FALSE,
                                                 !.bRecurse = bRecurse]
                             ELSE [walker EXCEPT !.bSearch = bSearch, !.pc = pc,
                                                 !.bRecurse = bRecurse]
    /\ UNCHANGED << m_dwThreadRunning, m_searchString, m_totalItems, m_searchedItems, m_totalMatches,
                    brackets, events, tasks, enumerated, entered >>
    /\ walkerUnchanged

\* WalkerBranch with directories handed to the pool like files
WalkerBranch_EnqueueDirs(bSearch, isDir, counting) ==
    IF bSearch
    THEN IF counting THEN "found" ELSE "enqueue"
    ELSE IF ~isDir \/ counting THEN "progress" ELSE "next"

\* lines 3775-3797: what the walker does with the entry (the name pattern
\* of the requests of the model is empty)
WalkerBranch(bSearch, isDir, counting) ==
    IF bSearch
    THEN IF counting THEN "found"
         ELSE IF ~isDir THEN "enqueue" ELSE "next"
    ELSE IF ~isDir \/ counting THEN "progress" ELSE "next"

\* lines 3673-3773 and the branch taken at 3775-3797
CheckAndFilter ==
    /\ walker.pc = "check"
    /\ IF walker.sPath \in m_backupAndTempFiles
       THEN /\ skipped' = skipped \cup {walker.sPath}
            /\ walker' = [walker EXCEPT !.pc = "next", !.sPath = NoPath,
                                        !.findData = NoFile, !.bSearch = FALSE]
       ELSE LET bSearch == FilterEntry(walker.sPath, walker.findData, settings, bCountingOnly,
                                           searchRootIsDir)
                isDir == walker.findData.folder
                pc == WalkerBranch(bSearch, isDir, bCountingOnly)
                bRecurse == RecurseAfter(walker.findData, settings, searchRootIsDir,
                                         walker.bRecurse)
            IN  /\ UNCHANGED skipped
                /\ walker' = IF pc = "next"
                             THEN [walker EXCEPT !.pc = "next", !.sPath = NoPath,
                                                 !.findData = NoFile, !.bSearch = FALSE,
                                                 !.bRecurse = bRecurse]
                             ELSE [walker EXCEPT !.bSearch = bSearch, !.pc = pc,
                                                 !.bRecurse = bRecurse]
    /\ UNCHANGED << m_dwThreadRunning, m_searchString, m_totalItems, m_searchedItems, m_totalMatches,
                    brackets, events, tasks, enumerated, entered >>
    /\ walkerUnchanged

\* line 3783
WalkerFound ==
    /\ walker.pc = "found"
    /\ SendMessage("Found", walker.sPath, WalkerThread, 1,
                   SearchInfo(walker.sPath, walker.findData))
    /\ walker' = [walker EXCEPT !.pc = "progress"]
    /\ UNCHANGED << m_dwThreadRunning, m_searchString, tasks, enumerated, entered, skipped >>
    /\ walkerUnchanged

\* lines 3784 and 3796
WalkerProgress ==
    /\ walker.pc = "progress"
    /\ SendMessage("Progress", walker.sPath, WalkerThread, IF walker.bSearch THEN 1 ELSE 0, NoInfo)
    /\ walker' = [walker EXCEPT !.pc = "next", !.sPath = NoPath,
                                !.findData = NoFile, !.bSearch = FALSE]
    /\ UNCHANGED << m_dwThreadRunning, m_searchString, tasks, enumerated, entered, skipped >>
    /\ walkerUnchanged

\* line 3791: enqueueWait waits for room in the queue
Enqueue ==
    /\ walker.pc = "enqueue"
    /\ Len(tasks) < MaxQueue
    /\ tasks' = Append(tasks, SearchInfo(walker.sPath, walker.findData))
    /\ walker' = [walker EXCEPT !.pc = "next", !.sPath = NoPath,
                                !.findData = NoFile, !.bSearch = FALSE]
    /\ UNCHANGED << m_dwThreadRunning, m_searchString, m_totalItems, m_searchedItems, m_totalMatches,
                    brackets, events, enumerated, entered, skipped >>
    /\ walkerUnchanged

\* WaitFinishedAndEnd without the wait for the pool
WaitFinishedAndEnd_NoWait ==
    /\ walker.pc = "wait"
    /\ SendMessage("End", NoPath, WalkerThread, 0, NoInfo)
    /\ walker' = [walker EXCEPT !.pc = "exit"]
    /\ UNCHANGED << m_dwThreadRunning, m_searchString, tasks, enumerated, entered, skipped >>
    /\ walkerUnchanged

\* lines 3801-3802: waitFinished returns when no task is queued or running
WaitFinishedAndEnd ==
    /\ walker.pc = "wait"
    /\ tasks = << >>
    /\ \A w \in Workers : workers[w].pc = "idle"
    /\ SendMessage("End", NoPath, WalkerThread, 0, NoInfo)
    /\ walker' = [walker EXCEPT !.pc = "exit"]
    /\ UNCHANGED << m_dwThreadRunning, m_searchString, tasks, enumerated, entered, skipped >>
    /\ walkerUnchanged

\* line 3803: the flag is cleared; the thread has lines 3805-3812 to run
ThreadExit ==
    /\ walker.pc = "exit"
    /\ m_dwThreadRunning' = FALSE
    /\ walker' = [IdleWalker EXCEPT !.returning = walker.returning + 1]
    /\ UNCHANGED << m_searchString, m_totalItems, m_searchedItems, m_totalMatches, brackets, events, tasks,
                    enumerated, entered, skipped >>
    /\ walkerUnchanged

\* lines 3805-3812: the cursor is refreshed, WM_GREPWIN_THREADEND is posted
\* and a search thread that has cleared the flag returns
ThreadReturn ==
    /\ walker.returning > 0
    /\ walker' = [walker EXCEPT !.returning = @ - 1]
    /\ UNCHANGED << m_dwThreadRunning, m_searchString, m_totalItems, m_searchedItems, m_totalMatches,
                    brackets, events, tasks, enumerated, entered, skipped >>
    /\ walkerUnchanged

(***************************************************************************)
(* The pool workers: SearchFile (lines 4635-4785) and what it calls.       *)
(***************************************************************************)
\* CTextFile::Load: the type it detects and whether the content was loaded
\* and decoded (false for a file too big to load, or on failure)
LoadOutcomes(f) ==
    IF ~f.exists THEN { << AutoType, FALSE >> }
    ELSE { << AutoType, FALSE >> } \cup
         (IF \E i \in 1..Len(f.data) : f.data[i] = 0
          THEN {Unicode_Le, Binary} \X BOOLEAN
          ELSE {Ansi} \X BOOLEAN)

\* the wide string CTextFile holds for the bytes of a file of a type
Decode(bytes, type) ==
    CASE type \in {Ansi, UTF8} -> bytes
      [] type = Unicode_Be -> utf16Swap(WideUnits(bytes, 0, Len(bytes) - (Len(bytes) % 2)))
      [] OTHER -> WideUnits(bytes, 0, Len(bytes) - (Len(bytes) % 2))

\* CTextFile::Save: the bytes written for a wide string
EncodeText(str, type) ==
    CASE type \in {Ansi, UTF8} -> str
      [] type = Unicode_Be -> WideBytes(utf16Swap(str))
      [] OTHER -> WideBytes(str)

\* an expression the regex constructor rejects: a repeat with nothing to repeat
BadExpression(expr) == expr # << >> /\ Head(expr) = ChStar

ScanCfg == [replace |-> m_bReplace, notSearch |-> m_bNotSearch, capture |-> m_bCaptureSearch]

workerFrame ==
    UNCHANGED << m_dwThreadRunning, m_cancelled, m_bReplace, m_bNotSearch,
                 m_bCaptureSearch, m_searchString, m_replaceString, settings,
                 threadsStarted, brackets, walker, enumerated, entered, skipped,
                 matchVars >>

\* sInfo when a pass of the text matcher ends: each hit has pushed its
\* triples (lines 4206-4249).  In a capture search matchLinesMap keeps the
\* formatted replacement of the first hit of a line (lines 4216-4220) and
\* the length pushed for a hit is the length of the entry of its line (line
\* 4223); the map is empty when the matcher is called.
TextHits(sInfo, st, text, cfg, fmt) ==
    LET triples == Flatten([i \in 1..Len(st.hitPos) |->
                       HitTriples(text, st.hitPos[i], st.hitLen[i], cfg.capture, fmt)])
        FirstOnLine(i) == CHOOSE j \in 1..i :
                              /\ triples[j][1] = triples[i][1]
                              /\ \A k \in 1..(j - 1) : triples[k][1] # triples[i][1]
    IN  [sInfo EXCEPT !.matchCount = @ + st.matchCount,
                      !.matchLinesNumbers = @ \o [i \in 1..Len(triples) |-> triples[i][1]],
                      !.matchColumnsNumbers = @ \o [i \in 1..Len(triples) |-> triples[i][2]],
                      !.matchLengths = @ \o [i \in 1..Len(triples) |->
                          IF cfg.capture THEN triples[FirstOnLine(i)][3] ELSE triples[i][3]],
                      !.hitCoords = @ \o [i \in 1..Len(triples) |->
                                              << triples[i][1], triples[i][2] >>],
                      !.hitFormats = @ \o [i \in 1..Len(triples) |->
                          IF cfg.capture
                          THEN Format(fmt, Sub(text, st.hitPos[i], st.hitPos[i] + st.hitLen[i]))
                          ELSE << >>],
                      !.hitSpans = @ \o [i \in 1..Len(st.hitPos) |->
                          [lineStart |-> LineFromPosition(text, st.hitPos[i]),
                           lineEnd |-> LineFromPosition(text,
                               IF st.hitLen[i] > 0 THEN st.hitPos[i] + st.hitLen[i] - 1
                               ELSE st.hitPos[i]),
                           colMatch |-> ColumnFromPosition(text, st.hitPos[i],
                               LineFromPosition(text, st.hitPos[i])),
                           lenMatch |-> st.hitLen[i],
                           lineLengths |->
                               [l \in 1..LineFromPosition(text,
                                    IF st.hitLen[i] > 0 THEN st.hitPos[i] + st.hitLen[i] - 1
                                    ELSE st.hitPos[i]) |-> Len(GetLineString(text, l))]]],
                      !.matchLinesMap = @ @@
                          [l \in {triples[i][1] : i \in 1..Len(triples)} |->
                              IF cfg.capture
                              THEN LET i == CHOOSE j \in 1..Len(triples) :
                                                /\ triples[j][1] = l
                                                /\ \A k \in 1..(j - 1) : triples[k][1] # l
                                   IN  Format(fmt, Sub(text, st.hitPos[i],
                                                       st.hitPos[i] + st.hitLen[i]))
                              ELSE GetLineString(text, l)]]

\* sInfo when a pass of the byte matcher ends: each hit has pushed its
\* offset and its length (lines 4492-4494), and when the pass has found
\* something every entry of the arrays is resolved against the index of
\* the units scanned so far (lines 4563-4616)
ByteHits(sInfo, st, text, cfg, csz) ==
    LET seen == Sub(text, 0, st.blockEnd)
        pushed == [sInfo EXCEPT !.matchCount = @ + st.matchCount,
                                !.matchLinesNumbers = @ \o st.hitPos,
                                !.matchColumnsNumbers = @ \o st.hitLen,
                                !.hitCoords = @ \o [i \in 1..Len(st.hitPos) |->
                                    << Resolve(seen, st.hitPos[i], st.hitLen[i])[1],
                                       Resolve(seen, st.hitPos[i], st.hitLen[i])[2] >>]]
    IN  IF st.nFound > 0 /\ sInfo.encoding # Binary /\ ~cfg.notSearch
        THEN ResolveFrom(seen, csz = 2, pushed, 1)
        ELSE pushed

\* lines 4705-4731 and 4751-4761: the encodings tried by each loop
TriesA(type, bUseRegex) ==
    IF type = Binary
    THEN IF bUseRegex THEN << Ansi, UTF8 >> ELSE << Ansi, UTF8, Unicode_Le, Unicode_Be >>
    ELSE << type >>
TriesB(type) == IF type = Binary THEN << Unicode_Le, Unicode_Be >> ELSE << type >>

BeginCall(wr, loop, tries, misaligned) ==
    [wr EXCEPT !.pc = "bOpen", !.loop = loop, !.tries = Tail(tries),
               !.misaligned = misaligned, !.sInfo.encoding = Head(tries),
               !.st = NoScan, !.job = NoJob, !.inData = << >>, !.bAdopt = FALSE,
               !.skipSize = 0, !.dropSize = 0, !.caller = "none",
               !.origAttributes = {}]

\* SearchFile is about to call SendResult: only sInfo and nCount are live
ToSend(wr) ==
    [wr EXCEPT !.pc = "progress", !.st = NoScan, !.job = NoJob, !.inData = << >>,
               !.tries = << >>, !.loop = "none", !.misaligned = FALSE,
               !.bAdopt = FALSE, !.caller = "none", !.skipSize = 0, !.dropSize = 0,
               !.origAttributes = {}, !.type = AutoType, !.bLoadResult = FALSE]

\* line 4749: the second loop runs for a regex when nothing was found so far
AfterLoopA(wr, s) ==
    IF s.bUseRegex /\ wr.nCount <= 0 /\ wr.type \in {Unicode_Le, Unicode_Be, Binary}
    THEN BeginCall(wr, "B", TriesB(wr.type), FALSE)
    ELSE ToSend(wr)

\* lines 4701-4782: where SearchFile goes when a call of SearchByFilePath
\* has returned ret, or has thrown
ByteReturn(wr, ret, threw, s) ==
    IF wr.loop = "A"
    THEN LET w1 == IF threw THEN wr ELSE [wr EXCEPT !.nCount = ret]
         IN  IF w1.nCount > 0 \/ w1.tries = << >>
             THEN AfterLoopA(w1, s)
             ELSE BeginCall(w1, "A", w1.tries, FALSE)
    ELSE LET w1 == IF threw THEN wr ELSE [wr EXCEPT !.nCount = @ + ret]
         IN  IF ~threw /\ ~wr.misaligned /\ wr.type = Binary
             THEN BeginCall(w1, "B", << w1.sInfo.encoding >> \o w1.tries, TRUE)
             ELSE IF w1.nCount > 0 \/ w1.tries = << >>
             THEN ToSend(w1)
             ELSE BeginCall(w1, "B", w1.tries, FALSE)

\* lines 4660-4704, for a task whose file Load has read: the test of the
\* cancel flag and the choice of matcher
Dispatch(wr, s, cancelled) ==
    IF cancelled THEN ToSend(wr)
    ELSE IF wr.type = AutoType THEN ToSend([wr EXCEPT !.sInfo.readError = TRUE])
    ELSE IF wr.bLoadResult /\ (wr.type # Binary \/ s.bIncludeBinary)
    THEN [wr EXCEPT !.pc = "tScan"]
    ELSE IF wr.type # Binary \/ s.bIncludeBinary \/ s.bForceBinary
    THEN IF ~s.bUseRegex \/ wr.type = Binary
         THEN BeginCall(wr, "A", TriesA(wr.type, s.bUseRegex), FALSE)
         ELSE AfterLoopA(wr, s)
    ELSE ToSend(wr)

\* a pool thread takes the next task, which holds its own copy of sInfo, and
\* runs SearchFile up to the choice of the matcher (lines 4635-4704).  The
\* pool threads are alike: the idle one with the lowest number takes it.
SearchFile(w) ==
    /\ workers[w].pc = "idle"
    /\ tasks # << >>
    /\ \A v \in Workers : v < w => workers[v].pc # "idle"
    /\ LET sInfo == Head(tasks)
           f == fs[sInfo.filePath]
       IN  \E o \in (IF settings.bForceBinary THEN { << Binary, FALSE >> }
                     ELSE LoadOutcomes(f)) :
             workers' = [workers EXCEPT ![w] =
                 Dispatch([IdleWorker EXCEPT
                              !.sInfo = [sInfo EXCEPT !.encoding = o[1]],
                              !.type = o[1], !.bLoadResult = o[2],
                              !.job = [NoJob EXCEPT !.text =
                                          IF o[2] THEN Decode(f.data, o[1]) ELSE << >>]],
                          settings, m_cancelled)]
    /\ tasks' = Tail(tasks)
    /\ UNCHANGED << m_backupAndTempFiles, m_totalItems, m_searchedItems, m_totalMatches, fs, events,
                    created, returned >>
    /\ workerFrame

\* SearchOnTextFile, lines 4149-4276: the expression is compiled (an error
\* is caught at line 4695), the temp path is registered in replace mode, and
\* the scan loop runs
TextScan(w) ==
    LET wr == workers[w]
        job == [text |-> wr.job.text, re |-> basic_regex(m_searchString),
                fmt |-> m_replaceString, csz |-> 0]
    IN
    /\ wr.pc = "tScan"
    /\ IF BadExpression(m_searchString)
       THEN /\ workers' = [workers EXCEPT ![w] =
                  ToSend([wr EXCEPT !.sInfo.exception = TRUE, !.nCount = 1,
                                    !.threw = TRUE])]
            /\ UNCHANGED m_backupAndTempFiles
       ELSE /\ \E o \in ScanOutcomes(ScanInit(job.text, 0, << >>), job, ScanCfg, m_cancelled) :
                  workers' = [workers EXCEPT ![w] =
                      [wr EXCEPT !.pc = "tCheck", !.job = job, !.st = o.st,
                                 !.hits = o.st.nFound, !.scanned = ~o.saw]]
            /\ m_backupAndTempFiles' =
                  IF m_bReplace
                  THEN m_backupAndTempFiles \cup {TempOf(wr.sInfo.filePath)}
                  ELSE m_backupAndTempFiles
    /\ UNCHANGED << m_totalItems, m_searchedItems, m_totalMatches, fs, events, tasks, created, returned >>
    /\ workerFrame

\* TextCheck without the test of the cancel flag
TextCheck_NoCancelTest(w) ==
    LET wr == workers[w]
        w1 == [wr EXCEPT !.sInfo = TextHits(@, wr.st, wr.job.text, ScanCfg, m_replaceString),
                         !.tested = IF ~m_bReplace THEN "none"
                                    ELSE IF m_cancelled THEN "set" ELSE "clear"]
    IN
    /\ wr.pc = "tCheck"
    /\ workers' = [workers EXCEPT ![w] =
          IF ~m_bReplace \/ wr.st.nFound = 0
          THEN ToSend([w1 EXCEPT !.nCount = wr.st.nFound])
          ELSE [w1 EXCEPT !.pc = "tSave"]]
    /\ UNCHANGED << m_backupAndTempFiles, m_totalItems, m_searchedItems, m_totalMatches, fs, events,
                    tasks, created, returned >>
    /\ workerFrame

\* TextCheck without the test of the replace mode
TextCheck_AnyMode(w) ==
    LET wr == workers[w]
        w1 == [wr EXCEPT !.sInfo = TextHits(@, wr.st, wr.job.text, ScanCfg, m_replaceString),
                         !.tested = IF ~m_bReplace THEN "none"
                                    ELSE IF m_cancelled THEN "set" ELSE "clear"]
    IN
    /\ wr.pc = "tCheck"
    /\ workers' = [workers EXCEPT ![w] =
          IF m_cancelled \/ wr.st.nFound = 0
          THEN ToSend([w1 EXCEPT !.nCount = wr.st.nFound])
          ELSE [w1 EXCEPT !.pc = "tSave"]]
    /\ UNCHANGED << m_backupAndTempFiles, m_totalItems, m_searchedItems, m_totalMatches, fs, events,
                    tasks, created, returned >>
    /\ workerFrame

\* SearchOnTextFile, lines 4278-4281
TextCheck(w) ==
    LET wr == workers[w]
        w1 == [wr EXCEPT !.sInfo = TextHits(@, wr.st, wr.job.text, ScanCfg, m_replaceString),
                         !.tested = IF ~m_bReplace THEN "none"
                                    ELSE IF m_cancelled THEN "set" ELSE "clear"]
    IN
    /\ wr.pc = "tCheck"
    /\ workers' = [workers EXCEPT ![w] =
          IF ~m_bReplace \/ m_cancelled \/ wr.st.nFound = 0
          THEN ToSend([w1 EXCEPT !.nCount = wr.st.nFound])
          ELSE [w1 EXCEPT !.pc = "tSave"]]
    /\ UNCHANGED << m_backupAndTempFiles, m_totalItems, m_searchedItems, m_totalMatches, fs, events,
                    tasks, created, returned >>
    /\ workerFrame

\* where a worker goes when AdoptTempResultFile returns ret: the text matcher
\* turns a failure into -1 (lines 4289-4294), the byte matcher ignores the
\* result (lines 4619-4624)
AdoptReturn(wr, ret, s) ==
    IF wr.caller = "text"
    THEN ToSend([wr EXCEPT !.nCount = IF ret <= 0 THEN -1 ELSE wr.st.nFound,
                           !.lastWriteTime = 0])
    ELSE ByteReturn([wr EXCEPT !.lastWriteTime = 0], wr.st.nFound, FALSE, s)

\* AdoptTempResultFile, lines 4086-4099: whether the times of the original
\* are read; they are read only to keep them, and reading them can fail
GetFileTimeOutcomes(files, p, s) ==
    IF ~s.bKeepFileDate THEN {TRUE}
    ELSE IF files[p].exists THEN BOOLEAN ELSE {FALSE}

\* AdoptTempResultFile, lines 4081-4103: the hidden, system and read-only
\* bits of the original are cleared
AdoptPrepFs(files, p) ==
    IF files[p].exists THEN [files EXCEPT ![p].attr = {}] ELSE files

AdoptPrep(wr, caller, files, s) ==
    [wr EXCEPT !.caller = caller,
               !.origAttributes = IF files[wr.sInfo.filePath].exists
                                  THEN files[wr.sInfo.filePath].attr ELSE {},
               !.lastWriteTime = IF s.bKeepFileDate THEN files[wr.sInfo.filePath].time
                                 ELSE 0,
               !.countDown = CountDownStart,
               !.pc = IF s.bCreateBackup /\ ~wr.sInfo.hasBackedup
                      THEN "aBackup" ELSE "aRename"]

\* AdoptTempResultFile is entered: it returns -1 at line 4091 or 4097 when
\* the times were not read, before anything is changed
AdoptEnter(wr, caller, files, s, got) ==
    IF got THEN AdoptPrep(wr, caller, files, s)
    ELSE AdoptReturn([wr EXCEPT !.caller = caller], -1, s)

AdoptEnterFs(files, p, got) == IF got THEN AdoptPrepFs(files, p) ELSE files

\* SearchOnTextFile, lines 4283-4289: the new content is saved to the temp
\* file and AdoptTempResultFile is entered
TextSave(w) ==
    LET wr == workers[w]
        p == wr.sInfo.filePath
        temp == TempOf(p)
    IN
    /\ wr.pc = "tSave"
    /\ \E ok \in BOOLEAN, got \in GetFileTimeOutcomes(fs, p, settings) :
         IF ok
         THEN /\ fs' = [AdoptEnterFs(fs, p, got) EXCEPT
                           ![temp] = Written(EncodeText(wr.st.out, wr.type))]
              /\ created' = created \cup {temp}
              /\ workers' = [workers EXCEPT ![w] = AdoptEnter(wr, "text", fs, settings, got)]
         ELSE /\ workers' = [workers EXCEPT ![w] = ToSend([wr EXCEPT !.nCount = -1])]
              /\ UNCHANGED << fs, created >>
    /\ UNCHANGED << m_backupAndTempFiles, m_totalItems, m_searchedItems, m_totalMatches, events, tasks,
                    returned >>
    /\ workerFrame

\* SearchByFilePath, lines 4370-4479: the file is mapped (the mapping may
\* fail, or throw), the expression is converted and compiled (a bad one
\* throws), and in replace mode the temp file is registered and opened
\* (which may fail)
ByteOpen(w) ==
    LET wr == workers[w]
        s == settings
        p == wr.sInfo.filePath
        temp == TempOf(p)
        csz == IF wr.loop = "A" THEN 1 ELSE 2
        inData == fs[p].data
        inSize == Len(inData)
        skipSize == IF csz > 1 /\ wr.misaligned /\ 0 < inSize THEN 1 ELSE 0
        dropSize == IF csz > 1 THEN (inSize - skipSize) % 2 ELSE 0
        workSize == inSize - skipSize - dropSize
        text == IF csz = 1 THEN inData ELSE WideUnits(inData, skipSize, workSize)
        expr == IF csz = 1 THEN ConvertToStringA(m_searchString, wr.sInfo.encoding)
                ELSE ConvertToStringW(m_searchString, wr.sInfo.encoding)
        repl == IF csz = 1 THEN ConvertToStringA(m_replaceString, wr.sInfo.encoding)
                ELSE ConvertToStringW(m_replaceString, wr.sInfo.encoding)
        ready == [wr EXCEPT !.pc = "bScan", !.inData = inData, !.skipSize = skipSize,
                            !.dropSize = dropSize,
                            !.job = [text |-> text, re |-> basic_regex(expr),
                                     fmt |-> repl, csz |-> csz],
                            !.st = ScanInit(text, csz, Sub(inData, 0, skipSize))]
    IN
    /\ wr.pc = "bOpen"
    /\ \E outcome \in {"ok", "fail", "throw", "notemp"} :
         CASE outcome = "fail" ->
                /\ workers' = [workers EXCEPT ![w] = ByteReturn(wr, -1, FALSE, s)]
                /\ UNCHANGED << m_backupAndTempFiles, fs, created >>
           [] outcome = "throw" ->
                /\ workers' = [workers EXCEPT ![w] = ByteReturn(wr, 0, TRUE, s)]
                /\ UNCHANGED << m_backupAndTempFiles, fs, created >>
           [] outcome = "notemp" ->
                /\ fs[p].exists /\ workSize # 0 /\ m_bReplace /\ ~BadExpression(expr)
                /\ m_backupAndTempFiles' = m_backupAndTempFiles \cup {temp}
                /\ workers' = [workers EXCEPT ![w] = ByteReturn(wr, -1, FALSE, s)]
                /\ UNCHANGED << fs, created >>
           [] OTHER ->
                /\ fs[p].exists
                /\ ~(m_bReplace /\ fs[temp].exists /\ fs[temp].folder)
                /\ IF workSize = 0
                   THEN /\ workers' = [workers EXCEPT ![w] = ByteReturn(wr, 0, FALSE, s)]
                        /\ UNCHANGED << m_backupAndTempFiles, fs, created >>
                   ELSE IF BadExpression(expr)
                   THEN /\ workers' = [workers EXCEPT ![w] =
                                  ByteReturn([wr EXCEPT !.threw = TRUE], 0, TRUE, s)]
                        /\ UNCHANGED << m_backupAndTempFiles, fs, created >>
                   ELSE /\ workers' = [workers EXCEPT ![w] = ready]
                        /\ IF m_bReplace
                           THEN /\ m_backupAndTempFiles' = m_backupAndTempFiles \cup {temp}
                                /\ fs' = [fs EXCEPT ![temp] = Written(<< >>)]
                                /\ created' = created \cup {temp}
                           ELSE UNCHANGED << m_backupAndTempFiles, fs, created >>
    /\ UNCHANGED << m_totalItems, m_searchedItems, m_totalMatches, events, tasks, returned >>
    /\ workerFrame

\* SearchByFilePath, lines 4481-4543: the scan loop
ByteScan(w) ==
    LET wr == workers[w] IN
    /\ wr.pc = "bScan"
    /\ \E o \in ScanOutcomes(wr.st, wr.job, ScanCfg, m_cancelled) :
          workers' = [workers EXCEPT ![w] =
              [wr EXCEPT !.pc = "bClose", !.st = o.st,
                         !.hits = @ + o.st.nFound, !.scanned = @ \/ ~o.saw]]
    /\ UNCHANGED << m_backupAndTempFiles, m_totalItems, m_searchedItems, m_totalMatches, fs, events,
                    tasks, created, returned >>
    /\ workerFrame

\* ByteClose without the DeleteFile of line 4560
ByteClose_KeepTemp(w) ==
    LET wr == workers[w]
        p == wr.sInfo.filePath
        temp == TempOf(p)
        bAdopt == m_bReplace /\ wr.st.nFound > 0
        w1 == [wr EXCEPT !.bAdopt = bAdopt,
                         !.sInfo = ByteHits(@, wr.st, wr.job.text, ScanCfg, wr.job.csz),
                         !.tested = IF ~bAdopt THEN @
                                    ELSE IF m_cancelled THEN "set" ELSE "clear"]
    IN
    /\ wr.pc = "bClose"
    /\ \E first \in (IF m_cancelled /\ bAdopt /\ wr.dropSize > 0 THEN BOOLEAN
                     ELSE {m_cancelled}) :
         LET out == IF bAdopt /\ wr.dropSize > 0 /\ ~first
                    THEN Append(wr.st.out, wr.inData[(Len(wr.inData) - 2) + 1])
                    ELSE wr.st.out
             closed == IF m_bReplace
                       THEN [fs EXCEPT ![temp] = Written(out)]
                       ELSE fs
         IN  IF bAdopt /\ ~m_cancelled
             THEN \E got \in GetFileTimeOutcomes(closed, p, settings) :
                  /\ fs' = AdoptEnterFs(closed, p, got)
                  /\ workers' = [workers EXCEPT ![w] =
                                    AdoptEnter(w1, "byte", closed, settings, got)]
             ELSE /\ fs' = closed
                  /\ workers' = [workers EXCEPT ![w] = ByteReturn(w1, wr.st.nFound, FALSE, settings)]
    /\ UNCHANGED << m_backupAndTempFiles, m_totalItems, m_searchedItems, m_totalMatches, events, tasks,
                    created, returned >>
    /\ workerFrame

\* SearchByFilePath, lines 4545-4622: the temp file is closed, and deleted
\* when nothing was found; the hits are stored in sInfo; the flag is tested
\* and AdoptTempResultFile is entered.  The flag is read at line 4551 and
\* again at line 4619: when it is set at the second read, the first may have
\* seen it clear or set.
ByteClose(w) ==
    LET wr == workers[w]
        p == wr.sInfo.filePath
        temp == TempOf(p)
        bAdopt == m_bReplace /\ wr.st.nFound > 0
        w1 == [wr EXCEPT !.bAdopt = bAdopt,
                         !.sInfo = ByteHits(@, wr.st, wr.job.text, ScanCfg, wr.job.csz),
                         !.tested = IF ~bAdopt THEN @
                                    ELSE IF m_cancelled THEN "set" ELSE "clear"]
    IN
    /\ wr.pc = "bClose"
    /\ \E first \in (IF m_cancelled /\ bAdopt /\ wr.dropSize > 0 THEN BOOLEAN
                     ELSE {m_cancelled}) :
         LET out == IF bAdopt /\ wr.dropSize > 0 /\ ~first
                    THEN Append(wr.st.out, wr.inData[(Len(wr.inData) - 2) + 1])
                    ELSE wr.st.out
             closed == IF m_bReplace
                       THEN [fs EXCEPT ![temp] = IF bAdopt THEN Written(out) ELSE NoFile]
                       ELSE fs
         IN  IF bAdopt /\ ~m_cancelled
             THEN \E got \in GetFileTimeOutcomes(closed, p, settings) :
                  /\ fs' = AdoptEnterFs(closed, p, got)
                  /\ workers' = [workers EXCEPT ![w] =
                                    AdoptEnter(w1, "byte", closed, settings, got)]
             ELSE /\ fs' = closed
                  /\ workers' = [workers EXCEPT ![w] = ByteReturn(w1, wr.st.nFound, FALSE, settings)]
    /\ UNCHANGED << m_backupAndTempFiles, m_totalItems, m_searchedItems, m_totalMatches, events, tasks,
                    created, returned >>
    /\ workerFrame

\* BackupFile, lines 4039-4070, called with bMove: the original is moved
\* to the backup path
AdoptBackup(w) ==
    LET wr == workers[w]
        p == wr.sInfo.filePath
        backupFile == BakOf(p, settings)
    IN
    /\ wr.pc = "aBackup"
    /\ \E bOk \in BOOLEAN :
         IF bOk
         THEN /\ fs[p].exists
              /\ fs' = [fs EXCEPT ![backupFile] = fs[p], ![p] = NoFile]
              /\ created' = created \cup {backupFile}
              /\ workers' = [workers EXCEPT ![w] = [wr EXCEPT !.pc = "aInsert"]]
         ELSE /\ workers' = [workers EXCEPT ![w] = AdoptReturn(wr, -1, settings)]
              /\ UNCHANGED << fs, created >>
    /\ UNCHANGED << m_backupAndTempFiles, m_totalItems, m_searchedItems, m_totalMatches, events, tasks,
                    returned >>
    /\ workerFrame

\* BackupFile, lines 4071-4076, and line 4110
AdoptInsert(w) ==
    LET wr == workers[w] IN
    /\ wr.pc = "aInsert"
    /\ m_backupAndTempFiles' = m_backupAndTempFiles \cup {BakOf(wr.sInfo.filePath, settings)}
    /\ workers' = [workers EXCEPT ![w] = [wr EXCEPT !.pc = "aRename", !.sInfo.hasBackedup = TRUE]]
    /\ UNCHANGED << m_totalItems, m_searchedItems, m_totalMatches, fs, events, tasks, created, returned >>
    /\ workerFrame

\* AdoptTempResultFile, lines 4116-4138: what countDown holds when the loop
\* that writes the times back ends; an attempt can fail, the loop ends at
\* the first that does not, and at 0 when none did
SetFileTimeOutcomes(s) ==
    IF s.bKeepFileDate THEN 0..CountDownStart ELSE {CountDownStart}

\* the times of the file after the loop
TimeAfter(wr, written, s, countDown) ==
    IF s.bKeepFileDate /\ countDown > 0 THEN wr.lastWriteTime ELSE written.time

\* AdoptTempResultFile, lines 4112-4146: the temp file is renamed over the
\* original, the times are written back in at most CountDownStart attempts
\* and the attribute bits are set again
AdoptRename(w) ==
    LET wr == workers[w]
        p == wr.sInfo.filePath
        temp == TempOf(p)
    IN
    /\ wr.pc = "aRename"
    /\ \E bOk \in BOOLEAN :
         IF bOk
         THEN /\ fs[temp].exists
              /\ \E countDown \in SetFileTimeOutcomes(settings) :
                   /\ fs' = [fs EXCEPT
                               ![p] = [fs[temp] EXCEPT
                                          !.attr = wr.origAttributes,
                                          !.time = TimeAfter(wr, fs[temp], settings, countDown)],
                               ![temp] = NoFile]
                   /\ workers' = [workers EXCEPT ![w] =
                         AdoptReturn([wr EXCEPT !.countDown = countDown], 1, settings)]
         ELSE /\ workers' = [workers EXCEPT ![w] = AdoptReturn(wr, -1, settings)]
              /\ UNCHANGED fs
    /\ UNCHANGED << m_backupAndTempFiles, m_totalItems, m_searchedItems, m_totalMatches, events, tasks,
                    created, returned >>
    /\ workerFrame

\* SendProgress with SEARCH_PROGRESS sent only for a file that is no result
SendProgress_OnlyIfNoResult(w) ==
    LET wr == workers[w]
        bAsResult == IF m_bNotSearch THEN wr.nCount <= 0 ELSE wr.nCount > 0
    IN
    /\ wr.pc = "progress"
    /\ IF bAsResult
       THEN UNCHANGED << brackets, events, m_totalItems, m_searchedItems, m_totalMatches >>
       ELSE SendMessage("Progress", wr.sInfo.filePath, w, IF wr.nCount >= 0 THEN 1 ELSE 0, NoInfo)
    /\ returned' = [returned EXCEPT ![wr.sInfo.filePath] =
                       [done |-> TRUE, nCount |-> wr.nCount, hits |-> wr.hits,
                        exception |-> wr.sInfo.exception, scanned |-> wr.scanned,
                        tested |-> wr.tested]]
    /\ workers' = [workers EXCEPT ![w] = IF bAsResult THEN [wr EXCEPT !.pc = "found"] ELSE IdleWorker]
    /\ UNCHANGED << m_backupAndTempFiles, fs, tasks, created >>
    /\ UNCHANGED << m_dwThreadRunning, m_cancelled, m_bReplace, m_bNotSearch,
                    m_bCaptureSearch, m_searchString, m_replaceString, settings,
                    threadsStarted, walker, enumerated, entered, skipped, matchVars >>

\* SendResult, line 4629
SendProgress(w) ==
    LET wr == workers[w]
        bAsResult == IF m_bNotSearch THEN wr.nCount <= 0 ELSE wr.nCount > 0
    IN
    /\ wr.pc = "progress"
    /\ SendMessage("Progress", wr.sInfo.filePath, w, IF wr.nCount >= 0 THEN 1 ELSE 0, NoInfo)
    /\ returned' = [returned EXCEPT ![wr.sInfo.filePath] =
                       [done |-> TRUE, nCount |-> wr.nCount, hits |-> wr.hits,
                        exception |-> wr.sInfo.exception, scanned |-> wr.scanned,
                        tested |-> wr.tested]]
    /\ workers' = [workers EXCEPT ![w] = IF bAsResult THEN [wr EXCEPT !.pc = "found"] ELSE IdleWorker]
    /\ UNCHANGED << m_backupAndTempFiles, fs, tasks, created >>
    /\ workerFrame

\* SendResult, lines 4630-4632
SendFound(w) ==
    LET wr == workers[w] IN
    /\ wr.pc = "found"
    /\ SendMessage("Found", wr.sInfo.filePath, w, 1, wr.sInfo)
    /\ workers' = [workers EXCEPT ![w] = IdleWorker]
    /\ UNCHANGED << m_backupAndTempFiles, fs, tasks, created, returned >>
    /\ workerFrame

Next ==
    \/ StartCommand
    \/ StopCommand
    \/ OnClose
    \/ ThreadStart
    \/ \E p \in Paths : NextFileEntry(p)
    \/ NextFileEnd
    \/ CheckAndFilter
    \/ WalkerFound
    \/ WalkerProgress
    \/ Enqueue
    \/ WaitFinishedAndEnd
    \/ ThreadExit
    \/ ThreadReturn
    \/ \E w \in Workers : SearchFile(w)
    \/ \E w \in Workers : TextScan(w)
    \/ \E w \in Workers : TextCheck(w)
    \/ \E w \in Workers : TextSave(w)
    \/ \E w \in Workers : ByteOpen(w)
    \/ \E w \in Workers : ByteScan(w)
    \/ \E w \in Workers : ByteClose(w)
    \/ \E w \in Workers : AdoptBackup(w)
    \/ \E w \in Workers : AdoptInsert(w)
    \/ \E w \in Workers : AdoptRename(w)
    \/ \E w \in Workers : SendProgress(w)
    \/ \E w \in Workers : SendFound(w)

Spec == Init /\ [][Next]_vars

(***************************************************************************)
(* One call of a matcher on its own: the scan loop of SearchOnTextFile or  *)
(* SearchByFilePath on a buffer, step by step, with the cancel flag set at *)
(* any moment.                                                             *)
(***************************************************************************)
RECURSIVE SeqsOfLen(_, _)
SeqsOfLen(S, n) ==
    IF n = 0 THEN { << >> }
    ELSE {Append(q, x) : q \in SeqsOfLen(S, n - 1), x \in S}

Buffers == UNION {SeqsOfLen(Alphabet, n) : n \in 0..MaxLen}

Modes ==
    { [replace |-> TRUE,  notSearch |-> FALSE, capture |-> FALSE],
      [replace |-> FALSE, notSearch |-> FALSE, capture |-> FALSE],
      [replace |-> FALSE, notSearch |-> TRUE,  capture |-> FALSE],
      [replace |-> FALSE, notSearch |-> FALSE, capture |-> TRUE] }

MatchJobs ==
    [ text : Buffers, re : {basic_regex(e) : e \in SearchStrings},
      fmt : {ReplaceString}, csz : {0, 1, 2}, cfg : Modes ]

InitMatch ==
    /\ InitEngine
    /\ mJob \in MatchJobs
    /\ mSt = ScanInit(mJob.text, mJob.csz, << >>)
    /\ mCancelled = FALSE
    /\ mRet = -2

\* one evaluation of the inner while condition with its body, or one block
\* tail with the test of the outer loop
MatchStep ==
    /\ mRet = -2
    /\ mSt.phase # "done"
    /\ mSt' = ScanStep(mSt, mJob, mJob.cfg, mCancelled)
    /\ UNCHANGED << engineVars, mJob, mCancelled, mRet >>

\* the dialog sets the flag while the matcher runs
MatchCancel ==
    /\ mRet = -2
    /\ ~mCancelled
    /\ mCancelled' = TRUE
    /\ UNCHANGED << engineVars, mJob, mSt, mRet >>

\* the loop has ended: nFound is what the matcher has counted
MatchReturn ==
    /\ mRet = -2
    /\ mSt.phase = "done"
    /\ mRet' = mSt.nFound
    /\ UNCHANGED << engineVars, mJob, mSt, mCancelled >>

NextMatch ==
    \/ MatchStep
    \/ MatchCancel
    \/ MatchReturn

SpecMatch == InitMatch /\ [][NextMatch]_vars

(***************************************************************************)
(* One file task on its own: SearchFile on a file whose content and whose  *)
(* request are drawn from small sets.  The run has been started, the       *)
(* walker has sent SEARCH_START, has enqueued the only file of the root    *)
(* and waits for the pool; the dialog may set the cancel flag at any       *)
(* moment.                                                                 *)
(***************************************************************************)
\* a character whose two bytes are alike, so that it can lie in a byte
\* sequence at an even and at an odd offset
WideChar == 257

TaskContents ==
    UNION {SeqsOfLen({1, ChLF}, n) : n \in 0..MaxLen}
    \cup { << 1, 0, 2, 0 >>, << 1, 0, ChLF, 0 >>, << 1, 1, 1, 1, 1 >> }

\* the requests that dispatch file tasks, a regex search for WideChar with
\* every file treated as binary, searches for an expression that has
\* zero-width hits, a search for an expression that does not compile, a
\* capture search whose replacement string holds the text of the hit, and
\* searches and capture searches for expressions that match a line break
TaskRequests ==
    {r \in Requests : r.s.searchString # << >> /\ ~BadExpression(r.s.searchString)} \cup
    { [id |-> IDOK,
       s |-> [Dialog(<< WideChar >>, TRUE, FALSE, FALSE, FALSE) EXCEPT !.bForceBinary = TRUE]],
      [id |-> IDOK,
       s |-> [Dialog(<< 1, ChStar >>, TRUE, FALSE, FALSE, FALSE) EXCEPT !.bForceBinary = TRUE]],
      [id |-> IDOK, s |-> Dialog(<< 1, ChStar >>, TRUE, FALSE, FALSE, FALSE)],
      [id |-> IDOK, s |-> Dialog(<< ChStar >>, TRUE, FALSE, FALSE, FALSE)],
      [id |-> IDC_CAPTURESEARCH,
       s |-> [Dialog(<< 1, ChStar >>, TRUE, FALSE, FALSE, FALSE)
                 EXCEPT !.replaceString = ReplaceString \o WholeMatch]] } \cup
    { [id |-> id, s |-> Dialog(str, TRUE, FALSE, FALSE, FALSE)] :
          id \in {IDOK, IDC_CAPTURESEARCH}, str \in {<< 1, ChLF, 1 >>, << ChLF, 1 >>} }

InitTaskOn(contents, attr, requests) ==
    \E c \in contents, r \in requests :
        LET p == PathOf("f1")
            files == [q \in Paths |-> IF q = p THEN File(c, attr) ELSE NoFile]
        IN  /\ m_dwThreadRunning = TRUE
            /\ m_cancelled = FALSE
            /\ m_bReplace = (r.id = IDC_REPLACE)
            /\ m_bNotSearch = (r.id = IDC_INVERSESEARCH)
            /\ m_bCaptureSearch = (r.id = IDC_CAPTURESEARCH)
            /\ m_searchString = IF r.s.bUseRegex THEN r.s.searchString
                                ELSE escapeForRegexEx(r.s.searchString)
            /\ m_replaceString = r.s.replaceString
            /\ settings = r.s
            /\ m_backupAndTempFiles = {}
            /\ m_totalItems = 0
            /\ m_searchedItems = 0
            /\ m_totalMatches = 0
            /\ threadsStarted = 1
            /\ fs = files
            /\ brackets = << Msg("Start", NoPath, WalkerThread, 0, NoInfo) >>
            /\ events = [q \in Paths |-> << >>]
            /\ walker = [IdleWalker EXCEPT !.pc = "wait"]
            /\ tasks = << SearchInfo(p, files[p]) >>
            /\ workers = [w \in Workers |-> IdleWorker]
            /\ enumerated = {p}
            /\ entered = {p}
            /\ skipped = {}
            /\ created = {}
            /\ returned = [q \in Paths |-> NoReturn]
            /\ mJob = NoJob
            /\ mSt = NoScan
            /\ mCancelled = FALSE
            /\ mRet = -2

NextTask ==
    \/ StopCommand
    \/ \E w \in Workers : SearchFile(w)
    \/ \E w \in Workers : TextScan(w)
    \/ \E w \in Workers : TextCheck(w)
    \/ \E w \in Workers : TextSave(w)
    \/ \E w \in Workers : ByteOpen(w)
    \/ \E w \in Workers : ByteScan(w)
    \/ \E w \in Workers : ByteClose(w)
    \/ \E w \in Workers : AdoptBackup(w)
    \/ \E w \in Workers : AdoptInsert(w)
    \/ \E w \in Workers : AdoptRename(w)
    \/ \E w \in Workers : SendProgress(w)
    \/ \E w \in Workers : SendFound(w)

InitTask == InitTaskOn(TaskContents, {}, TaskRequests)

SpecTask == InitTask /\ [][NextTask]_vars

(***************************************************************************)
(* One task: the replace of a hidden read-only file, as text and as bytes, *)
(* with and without a backup, keeping the times of the file or not.        *)
(***************************************************************************)
AdoptAttributes == {"hidden", "readonly"}

AdoptContents == { << 1 >>, << 1, 2 >>, << 2 >>, << 1, 0, 1, 0 >> }

AdoptRequests ==
    { [id |-> IDC_REPLACE,
       s |-> [Dialog(<< 1 >>, TRUE, backup, TRUE, TRUE) EXCEPT
                 !.bKeepFileDate = keep, !.bForceBinary = binary]] :
          backup \in BOOLEAN, keep \in BOOLEAN, binary \in BOOLEAN }

InitAdopt == InitTaskOn(AdoptContents, AdoptAttributes, AdoptRequests)

SpecAdopt == InitAdopt /\ [][NextTask]_vars

(***************************************************************************)
(* Runs over other search paths than the one directory: a file and the     *)
(* directory that holds it, the directory twice, a root that does not      *)
(* exist, a relative root, no root; and a regex search whose expression    *)
(* the validation has found invalid.                                       *)
(***************************************************************************)
RootRequests ==
    { [id |-> IDOK,
       s |-> [Dialog(<< 1 >>, TRUE, FALSE, FALSE, FALSE) EXCEPT !.searchPath = << "f1", RootDir >>]],
      [id |-> IDOK,
       s |-> [Dialog(<< >>, FALSE, FALSE, FALSE, FALSE) EXCEPT !.searchPath = << RootDir, RootDir >>]],
      [id |-> IDC_REPLACE,
       s |-> [Dialog(<< 1 >>, FALSE, TRUE, FALSE, FALSE) EXCEPT !.searchPath = << RootMissing, RootDir >>]],
      [id |-> IDOK,
       s |-> [Dialog(<< 1 >>, FALSE, FALSE, FALSE, FALSE) EXCEPT !.searchPath = << RootMissing >>]],
      [id |-> IDOK,
       s |-> [Dialog(<< 1 >>, FALSE, FALSE, FALSE, FALSE) EXCEPT !.searchPath = << RootRelative >>]],
      [id |-> IDOK,
       s |-> [Dialog(<< 1 >>, FALSE, FALSE, FALSE, FALSE) EXCEPT !.searchPath = << >>]],
      [id |-> IDOK,
       s |-> [Dialog(<< ChStar >>, TRUE, FALSE, FALSE, FALSE)
                 EXCEPT !.searchValidLength = Validate(<< ChStar >>, TRUE)]] }

\* a search command while no run is on
StartRoots ==
    /\ ~m_dwThreadRunning
    /\ threadsStarted = 0
    /\ \E r \in RootRequests, threadOk \in BOOLEAN :
          DoCommand(r.id, r.s, FALSE, TRUE, threadOk)

NextRoots ==
    \/ StartRoots
    \/ StopCommand
    \/ OnClose
    \/ ThreadStart
    \/ \E p \in Paths : NextFileEntry(p)
    \/ NextFileEnd
    \/ CheckAndFilter
    \/ WalkerFound
    \/ WalkerProgress
    \/ Enqueue
    \/ WaitFinishedAndEnd
    \/ ThreadExit
    \/ ThreadReturn
    \/ \E w \in Workers : SearchFile(w)
    \/ \E w \in Workers : TextScan(w)
    \/ \E w \in Workers : TextCheck(w)
    \/ \E w \in Workers : TextSave(w)
    \/ \E w \in Workers : ByteOpen(w)
    \/ \E w \in Workers : ByteScan(w)
    \/ \E w \in Workers : ByteClose(w)
    \/ \E w \in Workers : AdoptBackup(w)
    \/ \E w \in Workers : AdoptInsert(w)
    \/ \E w \in Workers : AdoptRename(w)
    \/ \E w \in Workers : SendProgress(w)
    \/ \E w \in Workers : SendFound(w)

SpecRoots == Init /\ [][NextRoots]_vars

(***************************************************************************)
(* A counting run and a replace run under fair scheduling: the search      *)
(* thread and each pool thread keep running while they have a step to      *)
(* take, and the dialog thread handles every message it is sent            *)
(* (SendMessage is part of the sender's step).                             *)
(***************************************************************************)
FairRequests ==
    { [id |-> IDOK,        s |-> Dialog(<< >>, FALSE, FALSE, FALSE, FALSE)],
      [id |-> IDC_REPLACE, s |-> Dialog(<< 1 >>, FALSE, TRUE, FALSE, FALSE)] }

\* the same requests with the file f1 as the only root
RunsRequests ==
    { [id |-> r.id, s |-> [r.s EXCEPT !.searchPath = << "f1" >>]] : r \in FairRequests }

StartFair ==
    /\ ~m_dwThreadRunning
    /\ threadsStarted = 0
    /\ \E r \in FairRequests, threadOk \in BOOLEAN :
          DoCommand(r.id, r.s, FALSE, TRUE, threadOk)

\* the steps of SearchThread
Walk ==
    \/ ThreadStart
    \/ \E p \in Paths : NextFileEntry(p)
    \/ NextFileEnd
    \/ CheckAndFilter
    \/ WalkerFound
    \/ WalkerProgress
    \/ Enqueue
    \/ WaitFinishedAndEnd
    \/ ThreadExit
    \/ ThreadReturn

\* the steps of pool thread w
Work(w) ==
    \/ SearchFile(w)
    \/ TextScan(w)
    \/ TextCheck(w)
    \/ TextSave(w)
    \/ ByteOpen(w)
    \/ ByteScan(w)
    \/ ByteClose(w)
    \/ AdoptBackup(w)
    \/ AdoptInsert(w)
    \/ AdoptRename(w)
    \/ SendProgress(w)
    \/ SendFound(w)

NextFair ==
    \/ StartFair
    \/ StopCommand
    \/ OnClose
    \/ Walk
    \/ \E w \in Workers : Work(w)

\* pool thread w has a step to take: it is in SearchFile, or it is the idle
\* thread that takes the next task
WorkEnabled(w) ==
    \/ workers[w].pc # "idle"
    \/ tasks # << >> /\ \A v \in Workers : v < w => workers[v].pc # "idle"

\* weak fairness of the search thread and of each pool thread; for the pool
\* threads it is written out with WorkEnabled as the enabling condition
SpecFair ==
    /\ Init
    /\ [][NextFair]_vars
    /\ WF_vars(Walk)
    /\ \A w \in Workers : ([]<>(~WorkEnabled(w)) \/ []<><<Work(w)>>_vars)

(***************************************************************************)
(* A run while the bookmark dialog is open.  The dialog is modeless (line  *)
(* 1792) and posts WM_BOOKMARK when a bookmark is selected; the handler    *)
(* (lines 1209-1262) tests only that the bookmark dialog exists.           *)
(***************************************************************************)
Bookmarks ==
    { [ s |-> [Dialog(<< 2 >>, TRUE, FALSE, FALSE, TRUE) EXCEPT !.searchPath = << >>],
        replaceString |-> << 1 >> ] }

\* WM_BOOKMARK: the members are assigned from the bookmark (lines
\* 1213-1236), then the controls are set; the change of the search text is
\* validated under the radio button as it was (lines 1238-1240)
OnBookmark(b) ==
    /\ m_searchString' = b.s.searchString
    /\ m_replaceString' = b.replaceString
    /\ settings' = [settings EXCEPT
                        !.searchString = b.s.searchString,
                        !.replaceString = b.replaceString,
                        !.bUseRegex = b.s.bUseRegex,
                        !.bCreateBackup = b.s.bCreateBackup,
                        !.bKeepFileDate = b.s.bKeepFileDate,
                        !.bForceBinary = b.s.bForceBinary,
                        !.bIncludeSystem = b.s.bIncludeSystem,
                        !.bIncludeSubfolders = b.s.bIncludeSubfolders,
                        !.bIncludeHidden = b.s.bIncludeHidden,
                        !.bIncludeBinary = b.s.bIncludeBinary,
                        !.searchPath = IF b.s.searchPath = << >> THEN @ ELSE b.s.searchPath,
                        !.searchValidLength = Validate(b.s.searchString, settings.bUseRegex)]
    /\ UNCHANGED << m_dwThreadRunning, m_cancelled, m_bReplace, m_bNotSearch,
                    m_bCaptureSearch, m_backupAndTempFiles, m_totalItems, m_searchedItems, m_totalMatches,
                    threadsStarted, fs, brackets, events, walker, tasks, workers,
                    enumerated, entered, skipped, created, returned, matchVars >>

StartBookmark ==
    /\ ~m_dwThreadRunning
    /\ threadsStarted = 0
    /\ \E r \in RunsRequests, threadOk \in BOOLEAN :
          DoCommand(r.id, r.s, FALSE, TRUE, threadOk)

NextBookmark ==
    \/ StartBookmark
    \/ \E b \in Bookmarks : OnBookmark(b)
    \/ Walk
    \/ \E w \in Workers : Work(w)

SpecBookmark == Init /\ [][NextBookmark]_vars

(***************************************************************************)
(* The name patterns on their own: SaveSettings splits the text of the     *)
(* pattern box into m_patterns (lines 3396-3421) and MatchPath tests a     *)
(* path against them (lines 4000-4037), one pattern per step.  Characters  *)
(* are their code points: 'a' is 97 and 'A' is 65.                         *)
(***************************************************************************)
MaxPatternLen == 4

ChDash == 45
ChBar == 124
ChDot == 46

towlower(c) == IF c >= 65 /\ c <= 90 THEN c + 32 ELSE c

ToLower(str) == [i \in 1..Len(str) |-> towlower(str[i])]

\* wcswildcmp(wild, string) for patterns whose only wildcard is '*'
RECURSIVE wcswildcmp(_, _)
wcswildcmp(wild, str) ==
    IF wild = << >> THEN str = << >>
    ELSE IF Head(wild) = ChStar
    THEN wcswildcmp(Tail(wild), str) \/ (str # << >> /\ wcswildcmp(wild, Tail(str)))
    ELSE /\ str # << >>
         /\ Head(wild) = Head(str)
         /\ wcswildcmp(Tail(wild), Tail(str))

\* wcscspn(pBuf, L"|")
BarSpan(buf) ==
    LET bars == {i \in 1..Len(buf) : buf[i] = ChBar}
    IN  IF bars = {} THEN Len(buf) ELSE (CHOOSE i \in bars : \A j \in bars : i <= j) - 1

\* lines 3398-3421: the loop ends after the part that reaches the end of the
\* text, and after a '|' that is the last character
RECURSIVE SplitPatterns(_)
SplitPatterns(buf) ==
    LET pos == BarSpan(buf)
        part == ToLower(Sub(buf, 0, pos))
        pushed == IF part = << >> THEN << >>
                  ELSE IF Len(part) > 2 /\ part[Len(part)] = ChStar /\ part[Len(part) - 1] = ChDot
                  THEN << part, Sub(part, 0, Len(part) - 2) >>
                  ELSE << part >>
    IN  IF pos + 1 >= Len(buf) THEN pushed
        ELSE pushed \o SplitPatterns(Sub(buf, pos + 1, Len(buf)))

\* lines 4007-4011: the part of the path after its last backslash
PathName(pathBuf) ==
    LET slashes == {i \in 1..Len(pathBuf) : pathBuf[i] = ChBackslash}
    IN  IF slashes = {} THEN pathBuf
        ELSE Sub(pathBuf, CHOOSE i \in slashes : \A j \in slashes : j <= i, Len(pathBuf))

PatternTexts == UNION {SeqsOfLen({97, 65, ChDash, ChBar, ChStar, ChDot}, n) : n \in 0..MaxPatternLen}

\* "A", "a.a", "a\A" and "A\a."
GlobPaths == { << 65 >>, << 97, ChDot, 97 >>, << 97, ChBackslash, 65 >>,
               << 65, ChBackslash, 97, ChDot >> }

NoPatterns == [pc |-> "save", m_patterns |-> << >>, i |-> 0, bPattern |-> FALSE, fName |-> << >>]

InitGlob ==
    /\ InitEngine
    /\ mJob \in [text : PatternTexts, pathBuf : GlobPaths]
    /\ mSt = NoPatterns
    /\ mCancelled = FALSE
    /\ mRet = -2

\* SaveSettings, lines 3396-3421
SavePatterns ==
    /\ mSt.pc = "save"
    /\ mSt' = [mSt EXCEPT !.pc = "enter", !.m_patterns = SplitPatterns(mJob.text)]
    /\ UNCHANGED << engineVars, mJob, mCancelled, mRet >>

\* MatchPath with the start value of bPattern always false
MatchPathEnter_StartFalse ==
    /\ mSt.pc = "enter"
    /\ IF mSt.m_patterns = << >>
       THEN /\ mRet' = 1
            /\ mSt' = [mSt EXCEPT !.pc = "done"]
       ELSE /\ mSt' = [mSt EXCEPT !.pc = "loop", !.i = 1,
                                  !.bPattern = FALSE,
                                  !.fName = ToLower(PathName(mJob.pathBuf))]
            /\ UNCHANGED mRet
    /\ UNCHANGED << engineVars, mJob, mCancelled >>

\* MatchPath in glob mode, lines 4002-4026: the empty list matches, else
\* bPattern starts from whether the first pattern begins with '-'
MatchPathEnter ==
    /\ mSt.pc = "enter"
    /\ IF mSt.m_patterns = << >>
       THEN /\ mRet' = 1
            /\ mSt' = [mSt EXCEPT !.pc = "done"]
       ELSE /\ mSt' = [mSt EXCEPT !.pc = "loop", !.i = 1,
                                  !.bPattern = (Len(mSt.m_patterns[1]) > 0
                                                /\ mSt.m_patterns[1][1] = ChDash),
                                  !.fName = ToLower(PathName(mJob.pathBuf))]
            /\ UNCHANGED mRet
    /\ UNCHANGED << engineVars, mJob, mCancelled >>

\* lines 4028-4034: one pattern of the list
MatchPathLoop ==
    /\ mSt.pc = "loop"
    /\ mSt.i <= Len(mSt.m_patterns)
    /\ LET pattern == mSt.m_patterns[mSt.i]
       IN  mSt' = [mSt EXCEPT
                     !.i = @ + 1,
                     !.bPattern =
                         IF pattern # << >> /\ pattern[1] = ChDash
                         THEN mSt.bPattern /\ ~wcswildcmp(Tail(pattern), mSt.fName)
                         ELSE mSt.bPattern \/ wcswildcmp(pattern, mSt.fName)]
    /\ UNCHANGED << engineVars, mJob, mCancelled, mRet >>

\* line 4036
MatchPathReturn ==
    /\ mSt.pc = "loop"
    /\ mSt.i > Len(mSt.m_patterns)
    /\ mRet' = IF mSt.bPattern THEN 1 ELSE 0
    /\ mSt' = [mSt EXCEPT !.pc = "done"]
    /\ UNCHANGED << engineVars, mJob, mCancelled >>

NextGlob ==
    \/ SavePatterns
    \/ MatchPathEnter
    \/ MatchPathLoop
    \/ MatchPathReturn

SpecGlob == InitGlob /\ [][NextGlob]_vars

(***************************************************************************)
(* A root with directories below it: f1 holds no 'a', f1.bak is an empty   *)
(* directory, f1.grepwinreplaced is a hidden directory that holds the file *)
(* f2.  A counting run without sub folders and a replace run with sub      *)
(* folders and without hidden entries.                                     *)
(***************************************************************************)
TreeFs ==
    [p \in Paths |->
        IF p = PathOf("f1") THEN File(<< 2 >>, {})
        ELSE IF p = [dir |-> "", name |-> "f1", sfx |-> << "bak" >>] THEN Folder({})
        ELSE IF p = [dir |-> "", name |-> "f1", sfx |-> << "grepwinreplaced" >>]
        THEN Folder({"hidden"})
        ELSE IF p = [dir |-> SubDir, name |-> "f2", sfx |-> << >>] THEN File(<< 1, 2 >>, {})
        ELSE InitialFs[p]]

TreeRequests ==
    { [id |-> IDOK,
       s |-> [Dialog(<< >>, FALSE, FALSE, FALSE, FALSE) EXCEPT !.bIncludeSubfolders = FALSE]],
      [id |-> IDC_REPLACE, s |-> Dialog(<< 1 >>, FALSE, TRUE, FALSE, FALSE)] }

InitTree ==
    /\ InitEngineOn(TreeFs)
    /\ mJob = NoJob
    /\ mSt = NoScan
    /\ mCancelled = FALSE
    /\ mRet = -2

StartTree ==
    /\ ~m_dwThreadRunning
    /\ threadsStarted = 0
    /\ \E r \in TreeRequests : DoCommand(r.id, r.s, FALSE, TRUE, TRUE)

NextTree ==
    \/ StartTree
    \/ Walk
    \/ \E w \in Workers : Work(w)

SpecTree == InitTree /\ [][NextTree]_vars

(***************************************************************************)
(* Runs with a size limit: a counting run for entries larger than 0, an    *)
(* inverse search over files larger than 2, a search whose root is the     *)
(* file f1 with the same limit, and a replace over files smaller than 3.   *)
(***************************************************************************)
\* size is m_lSize, the limit of the dialog times 1024 (line 3455), in the
\* unit in which the model counts the size of a file
SizeLimit(s, cmp, size) == [s EXCEPT !.bAllSize = FALSE, !.sizeCmp = cmp, !.lSize = size]

SizeRequests ==
    { [id |-> IDOK, s |-> SizeLimit(Dialog(<< >>, FALSE, FALSE, FALSE, FALSE), 2, 0)],
      [id |-> IDC_INVERSESEARCH, s |-> SizeLimit(Dialog(<< 1 >>, TRUE, FALSE, FALSE, TRUE), 2, 2)],
      [id |-> IDOK,
       s |-> [SizeLimit(Dialog(<< 1 >>, TRUE, FALSE, FALSE, TRUE), 2, 2)
                 EXCEPT !.searchPath = << "f1" >>]],
      [id |-> IDC_REPLACE, s |-> SizeLimit(Dialog(<< 1 >>, FALSE, TRUE, FALSE, FALSE), 0, 3)] }

StartSize ==
    /\ ~m_dwThreadRunning
    /\ threadsStarted = 0
    /\ \E r \in SizeRequests : DoCommand(r.id, r.s, FALSE, TRUE, TRUE)

NextSize ==
    \/ StartSize
    \/ Walk
    \/ \E w \in Workers : Work(w)

SpecSize == Init /\ [][NextSize]_vars

(***************************************************************************)
(* Runs whose roots are files: the hidden file f2 with hidden files left   *)
(* out and a size limit it does not meet, in a search and in a counting    *)
(* run; two files in an inverse search; and a replace with backup over f1  *)
(* and the file f1.bak, which is there before the run.                     *)
(***************************************************************************)
FileRootFs ==
    [p \in Paths |->
        IF p = RootPath(RootBackup) THEN File(<< 2 >>, {}) ELSE InitialFs[p]]

FileRootRequests ==
    { [id |-> IDOK,
       s |-> [SizeLimit(Dialog(<< 1 >>, TRUE, FALSE, TRUE, FALSE), 2, 5)
                 EXCEPT !.searchPath = << "f2" >>]],
      [id |-> IDOK,
       s |-> [SizeLimit(Dialog(<< >>, FALSE, FALSE, FALSE, FALSE), 2, 5)
                 EXCEPT !.searchPath = << "f2" >>]],
      [id |-> IDC_INVERSESEARCH,
       s |-> [Dialog(<< 1 >>, TRUE, FALSE, FALSE, FALSE)
                 EXCEPT !.searchPath = << "f2", "f1" >>]],
      [id |-> IDC_REPLACE,
       s |-> [Dialog(<< 1 >>, FALSE, TRUE, FALSE, FALSE)
                 EXCEPT !.searchPath = << "f1", RootBackup >>]] }

InitFileRoot ==
    /\ InitEngineOn(FileRootFs)
    /\ mJob = NoJob
    /\ mSt = NoScan
    /\ mCancelled = FALSE
    /\ mRet = -2

StartFileRoot ==
    /\ ~m_dwThreadRunning
    /\ threadsStarted = 0
    /\ \E r \in FileRootRequests : DoCommand(r.id, r.s, FALSE, TRUE, TRUE)

NextFileRoot ==
    \/ StartFileRoot
    \/ Walk
    \/ \E w \in Workers : Work(w)

SpecFileRoot == InitFileRoot /\ [][NextFileRoot]_vars

(***************************************************************************)
(* The width of the thread pool (lines 3642-3645) on its own, for the      *)
(* values std::thread::hardware_concurrency can return.  The arithmetic is *)
(* unsigned, of the width of DWord.                                        *)
(***************************************************************************)
MaxConcurrency == 64

HardwareConcurrencies == 0..MaxConcurrency \cup {(2 ^ DWordBits) - 1}

\* PoolWidth without the test of lines 3643-3644
PoolWidth_NoClamp(hardwareConcurrency) ==
    LET less == DWord(hardwareConcurrency - 2)
    IN  IF less > 1 THEN less ELSE 1

\* lines 3642-3645: max(hardwareConcurrency - 2, 1) after the value was
\* raised to 2
PoolWidth(hardwareConcurrency) ==
    LET raised == IF hardwareConcurrency < 2 THEN 2 ELSE hardwareConcurrency
        less == DWord(raised - 2)
    IN  IF less > 1 THEN less ELSE 1

InitPool ==
    /\ InitEngine
    /\ mJob \in [hardwareConcurrency : HardwareConcurrencies]
    /\ mSt = NoScan
    /\ mCancelled = FALSE
    /\ mRet = -2

\* line 3645: the pool is created
CreatePool ==
    /\ mRet = -2
    /\ mRet' = PoolWidth(mJob.hardwareConcurrency)
    /\ UNCHANGED << engineVars, mJob, mSt, mCancelled >>

NextPool == CreatePool

SpecPool == InitPool /\ [][NextPool]_vars

(***************************************************************************)
(* The resolve loop of the byte matcher on lines around the length from    *)
(* which a line is not kept: a buffer of one line of lineLength units,     *)
(* alone or followed by a line break and one more unit, with one hit.      *)
(***************************************************************************)
LongLineJobs ==
    { [text |-> [i \in 1..n |-> 1] \o tail, re |-> basic_regex(<< 1 >>),
       fmt |-> << >>, csz |-> c.csz, encoding |-> c.encoding,
       pos |-> pos, len |-> len] :
          n \in {1, 2, MaxLineLength - 1, MaxLineLength, MaxLineLength + 1},
          tail \in {<< >>, << ChLF, 1 >>},
          c \in [csz : {1}, encoding : {Ansi, UTF8, Unicode_Le, Unicode_Be}]
                \cup [csz : {2}, encoding : {Unicode_Le, Unicode_Be}],
          pos \in {0, 1}, len \in {1, 2} }

InitLongLine ==
    /\ InitEngine
    /\ mJob \in LongLineJobs
    /\ mSt = [ScanInit(mJob.text, mJob.csz, << >>) EXCEPT
                  !.blockEnd = Len(mJob.text), !.startIter = Len(mJob.text),
                  !.nFound = 1, !.matchCount = 1,
                  !.hitPos = << mJob.pos >>, !.hitLen = << mJob.len >>]
    /\ mCancelled = FALSE
    /\ mRet = NoInfo

\* SearchByFilePath, lines 4563-4616, for the hit of the job
ResolveLongLine ==
    /\ mRet = NoInfo
    /\ mRet' = ByteHits([NoInfo EXCEPT !.encoding = mJob.encoding,
                                      !.fileSize = Len(mJob.text)],
                        mSt, mJob.text,
                        [replace |-> FALSE, notSearch |-> FALSE, capture |-> FALSE],
                        mJob.csz)
    /\ UNCHANGED << engineVars, mJob, mSt, mCancelled >>

NextLongLine == ResolveLongLine

SpecLongLine == InitLongLine /\ [][NextLongLine]_vars

(***************************************************************************)
(* Properties.                                                             *)
(***************************************************************************)

\* C1: in a run started by SearchThread the walker delivers Start first and
\* End last, one of each: no Progress or Found is delivered before Start,
\* End is delivered only when no task is queued or running, nothing is
\* delivered after End, and when the thread has exited there is exactly one
\* Start and one End.
C1_StartEndBracket ==
    /\ [](LET IsWalker(m) == m.by = WalkerThread
              sent == SelectSeq(brackets, IsWalker)
          IN  /\ Len(sent) <= 2
              /\ (Len(sent) >= 1 => sent[1].kind = "Start")
              /\ (Len(sent) = 2 => sent[2].kind = "End")
              /\ ((\E p \in Paths : events[p] # << >>) => Len(sent) >= 1)
              /\ (Len(sent) = 2 => tasks = << >> /\ \A w \in Workers : workers[w].pc = "idle")
              /\ (threadsStarted = 1 /\ ~m_dwThreadRunning => Len(sent) = 2))
    /\ [][LET IsWalkerEnd(m) == m.by = WalkerThread /\ m.kind = "End"
          IN  Len(SelectSeq(brackets, IsWalkerEnd)) > 0
              => events' = events /\ brackets' = brackets]_vars

\* a run with two results has ended
C1_Witness ==
    /\ Len(brackets) = 2
    /\ brackets[2].kind = "End"
    /\ \E p, q \in Paths : p # q /\ Len(events[p]) = 2 /\ Len(events[q]) = 2

\* C2: in replace mode, when the run is not cancelled, once the task of a
\* file with at least one hit has returned the original path holds either
\* the content it had before the run or the rewritten content, and is never
\* missing.
C2_OriginalOrRewritten ==
    \A p \in {PathOf("f1"), PathOf("f2")} :
        LET before == InitialFs[p].data
            re == basic_regex(m_searchString)
            rewritten == { EncodeText(regex_replace(Decode(before, t), 0,
                                                    Len(Decode(before, t)), re,
                                                    m_replaceString), t) :
                           t \in {Ansi, Unicode_Le} }
        IN  (m_bReplace /\ ~m_cancelled /\ returned[p].done /\ returned[p].hits > 0)
            => (fs[p].exists /\ fs[p].data \in ({before} \cup rewritten))

\* C3: in capture-search mode no file is modified: no temp file is written,
\* no backup is made and no original is renamed over.
C3_CaptureNeverModifies ==
    m_bCaptureSearch => (fs = InitialFs /\ created = {})

\* a capture search has reported hits in both files
C3_Witness ==
    /\ m_bCaptureSearch
    /\ returned[PathOf("f1")].hits > 0
    /\ returned[PathOf("f2")].hits > 0
    /\ \E i \in 1..Len(events[PathOf("f2")]) : events[PathOf("f2")][i].kind = "Found"

\* C4 as stated: when the flag is set while a worker is in the replace
\* protocol and has not yet renamed the temp file, its step does not change
\* what the original path holds.
C4_CancelBeforeRename ==
    [][\A w \in Workers :
          LET p == workers[w].sInfo.filePath
              Content(f) == IF f.exists THEN f.data ELSE << -1 >>
          IN  (m_cancelled /\ workers[w].pc \in {"tCheck", "bClose", "tSave", "aBackup",
                                                "aInsert", "aRename"})
              => Content(fs'[p]) = Content(fs[p])]_vars

\* C4 as amended: when the flag is set as the worker tests it after the scan
\* loop (line 4278, line 4619) the worker does not enter the replace
\* protocol, and the original path holds what it held before the run when
\* the task has returned.
C4_CancelAtTest ==
    /\ [](/\ \A w \in Workers :
                workers[w].pc \in {"tSave", "aBackup", "aInsert", "aRename"}
                => workers[w].tested = "clear"
          /\ \A p \in {PathOf("f1"), PathOf("f2")} :
                returned[p].tested = "set" => fs[p] = InitialFs[p])
    /\ [][\A w \in Workers :
             (m_cancelled /\ m_bReplace /\ workers[w].pc \in {"tCheck", "bClose"})
             => /\ workers'[w].pc \notin {"tSave", "aBackup", "aInsert", "aRename"}
                /\ fs'[workers[w].sInfo.filePath] = fs[workers[w].sInfo.filePath]]_vars

\* the task of a file with hits has returned after the flag was set at its
\* test
C4_Witness ==
    \E p \in {PathOf("f1"), PathOf("f2")} :
        returned[p].tested = "set" /\ returned[p].hits > 0

\* C5: no temp or backup file created in the run is dispatched as a task or
\* reported by the walker.
C5_ArtifactsNeverDispatched ==
    \A p \in created :
        /\ ~(walker.sPath = p /\ walker.pc \in {"found", "enqueue", "progress"})
        /\ \A i \in 1..Len(tasks) : tasks[i].filePath # p
        /\ \A w \in Workers : workers[w].sInfo.filePath # p
        /\ events[p] = << >>

\* C6: in normal mode with a non-empty pattern, when the task of a file has
\* returned, Found was delivered for it iff a matcher counted a hit in it or
\* a regex error was caught.  Stated for the runs that write nothing, where
\* no hit can be lost to a failed write.
C6_FoundIffHit ==
    (~m_bNotSearch /\ ~m_bReplace /\ m_searchString # << >>)
    => \A p \in Paths :
          (returned[p].done /\ \A w \in Workers : workers[w].sInfo.filePath # p)
          => ((\E i \in 1..Len(events[p]) : events[p][i].kind = "Found")
              <=> (returned[p].hits > 0 \/ returned[p].exception))

\* C7: in not_search mode Found is delivered for a file only when a scan of
\* it ran to the end and counted no match, and is delivered for every such
\* file.
C7_NotSearchFound ==
    m_bNotSearch
    => \A p \in Paths :
          (returned[p].done /\ \A w \in Workers : workers[w].sInfo.filePath # p)
          => ((\E i \in 1..Len(events[p]) : events[p][i].kind = "Found")
              <=> (returned[p].scanned /\ returned[p].hits = 0))

\* C8 as stated: when the walker has delivered End, every non-directory
\* entry NextFile returned and the walker did not skip as in-flight has
\* exactly one Progress.
C8_ProgressPerEnumerated ==
    LET IsProgress(m) == m.kind = "Progress"
        IsWalkerEnd(m) == m.by = WalkerThread /\ m.kind = "End"
    IN  Len(SelectSeq(brackets, IsWalkerEnd)) > 0
        => \A p \in enumerated \ skipped :
              ~InitialFs[p].exists \/ ~InitialFs[p].folder
              => Len(SelectSeq(events[p], IsProgress)) = 1

\* C8 as amended: no path ever has more than one Progress, and when the
\* walker has delivered End, every non-directory entry for which the body of
\* the walker's loop ran (the flag was clear at the loop test of line 3671)
\* and which was not skipped as in-flight has exactly one.
C8_ProgressPerEntered ==
    LET IsProgress(m) == m.kind = "Progress"
        IsWalkerEnd(m) == m.by = WalkerThread /\ m.kind = "End"
    IN  /\ \A p \in Paths : Len(SelectSeq(events[p], IsProgress)) <= 1
        /\ Len(SelectSeq(brackets, IsWalkerEnd)) > 0
           => \A p \in entered \ skipped :
                 ~InitialFs[p].exists \/ ~InitialFs[p].folder
                 => Len(SelectSeq(events[p], IsProgress)) = 1

\* a cancelled run has ended after the loop body ran for both files
C8_Witness ==
    /\ Len(brackets) = 2
    /\ m_cancelled
    /\ {PathOf("f1"), PathOf("f2")} \subseteq entered
    /\ \E p \in enumerated : p \notin entered

\* C9 as stated: the events about a file come from one thread, Found before
\* Progress.
C9_FoundThenProgress ==
    \A p \in Paths :
        /\ \A i, j \in 1..Len(events[p]) : events[p][i].by = events[p][j].by
        /\ \A i, j \in 1..Len(events[p]) :
              (events[p][i].kind = "Found" /\ events[p][j].kind = "Progress") => i < j

\* C9 as amended: the events about a file come from one thread; a worker
\* delivers Progress and then Found when there is one, the walker delivers
\* Found when there is one and then Progress.
C9_OneThreadFixedOrder ==
    \A p \in Paths :
        LET kinds == [i \in 1..Len(events[p]) |-> events[p][i].kind]
        IN  /\ \A i, j \in 1..Len(events[p]) : events[p][i].by = events[p][j].by
            /\ events[p] # << >> =>
                  IF events[p][1].by = WalkerThread
                  THEN kinds \in { << "Found" >>, << "Found", "Progress" >>, << "Progress" >> }
                  ELSE kinds \in { << "Progress" >>, << "Progress", "Found" >> }

\* a worker has delivered Progress and Found for a file
C9_Witness ==
    \E p \in Paths :
        /\ Len(events[p]) = 2
        /\ events[p][1].by \in Workers
        /\ events[p][1].kind = "Progress"
        /\ events[p][2].kind = "Found"

\* C10: when a matcher call in replace mode that was not cancelled has
\* counted a hit, what it has written is regex_replace of the whole buffer.
C10_WrittenIsRegexReplace ==
    (mRet > 0 /\ mJob.cfg.replace /\ ~mCancelled)
    => mSt.out = Emit(mJob.csz, regex_replace(mJob.text, 0, Len(mJob.text),
                                              mJob.re, mJob.fmt))

\* C11: the scan loops of both matchers terminate.  The position and the
\* block end stay inside the buffer; an iteration of the inner loop moves the
\* position forward or leaves the loop, and by exactly one unit past a
\* zero-width hit; an iteration of the outer loop moves the block end forward
\* or leaves the loop.
C11_ScanLoopsAdvance ==
    /\ [](/\ 0 <= mSt.startIter /\ mSt.startIter <= mSt.blockEnd
          /\ mSt.blockEnd <= Len(mJob.text))
    /\ [][mSt' # mSt =>
            /\ (mSt.phase = "inner" =>
                    \/ mSt'.phase = "tail" /\ mSt'.startIter >= mSt.startIter
                    \/ mSt'.phase = "inner" /\ mSt'.startIter > mSt.startIter)
            /\ (mSt.phase = "inner" /\ mSt'.phase = "inner"
                 /\ mSt'.hitLen[Len(mSt'.hitLen)] = 0 =>
                    mSt'.startIter = mSt'.hitPos[Len(mSt'.hitPos)] + 1)
            /\ (mSt.phase = "tail" =>
                    \/ mSt'.phase = "done"
                    \/ mSt'.phase = "inner" /\ mSt'.blockEnd > mSt.blockEnd)]_vars

\* a scan over several blocks has ended after a zero-width hit
C11_Witness ==
    /\ mRet >= 0
    /\ Len(mJob.text) > BlockUnits(mJob.csz)
    /\ \E i \in 1..Len(mSt.hitLen) : mSt.hitLen[i] = 0

\* C12: in every file result delivered with Found the arrays of lines, of
\* columns and of lengths have the same length.
C12_ParallelArrays ==
    \A p \in Paths : \A i \in 1..Len(events[p]) :
        events[p][i].kind = "Found" =>
            LET info == events[p][i].info
            IN  /\ Len(info.matchLinesNumbers) = Len(info.matchColumnsNumbers)
                /\ Len(info.matchColumnsNumbers) = Len(info.matchLengths)

\* C13: in every file result delivered with Found each line is at least 1,
\* each column is at least 1 and each length is at least 0, and the line and
\* the column of entry i are the coordinates of hit i.
C13_HitCoordinates ==
    \A p \in Paths : \A i \in 1..Len(events[p]) :
        events[p][i].kind = "Found" =>
            LET info == events[p][i].info
            IN  /\ \A k \in 1..Len(info.matchLinesNumbers) : info.matchLinesNumbers[k] >= 1
                /\ \A k \in 1..Len(info.matchColumnsNumbers) : info.matchColumnsNumbers[k] >= 1
                /\ \A k \in 1..Len(info.matchLengths) : info.matchLengths[k] >= 0
                /\ \A k \in 1..Len(info.hitCoords) :
                      /\ k <= Len(info.matchLinesNumbers)
                      /\ k <= Len(info.matchColumnsNumbers)
                      /\ info.matchLinesNumbers[k] = info.hitCoords[k][1]
                      /\ info.matchColumnsNumbers[k] = info.hitCoords[k][2]

\* C14: within one run a file path is dispatched as a task, or reported by
\* the walker in counting mode, at most once: when the walker enqueues a task
\* for a path no task for it is queued, running or returned, and when it
\* reports a path it has not reported it before.
C14_DispatchedOnce ==
    [][/\ (walker.pc = "enqueue" /\ walker'.pc # "enqueue") =>
              /\ ~returned[walker.sPath].done
              /\ \A w \in Workers : workers[w].sInfo.filePath # walker.sPath
              /\ \A i \in 1..Len(tasks) : tasks[i].filePath # walker.sPath
       /\ (walker.pc = "found" /\ walker'.pc # "found") =>
              events[walker.sPath] = << >>]_vars

\* C18: a request with an invalid configuration (an empty or relative search
\* path, a root that does not exist, a regex search with an expression that
\* does not compile) starts no run: no thread is started, no Start or End is
\* delivered, no event is delivered and no file is touched.
C18_InvalidStartsNothing ==
    LET invalid ==
            \/ PathIsRelative(settings.searchPath)
            \/ \E i \in 1..Len(settings.searchPath) :
                  ~PathFileExists(settings.searchPath[i], InitialFs)
            \/ /\ settings.bUseRegex
               /\ settings.searchString # << >>
               /\ ~isRegexValid(settings.searchString)
    IN  invalid =>
            /\ threadsStarted = 0
            /\ ~m_dwThreadRunning
            /\ walker = IdleWalker
            /\ brackets = << >>
            /\ \A p \in Paths : events[p] = << >>
            /\ fs = InitialFs

\* C15: when the backup or the rename of the replace protocol fails, the
\* task holds -1 as its count and the original path holds the file it held
\* before the run, with the same content and the same attribute bits.
C15_FailedReplaceReportsError ==
    [][\A w \in Workers :
          LET wr == workers[w]
              p == wr.sInfo.filePath
              failed == \/ wr.pc = "aBackup" /\ workers'[w].pc \notin {"aBackup", "aInsert"}
                        \/ /\ wr.pc = "aRename" /\ workers'[w].pc # "aRename"
                           /\ fs'[TempOf(p)] = fs[TempOf(p)]
          IN  failed => /\ workers'[w].nCount = -1
                        /\ fs'[p] = InitialFs[p]]_vars

\* C16: a task whose file could not be loaded (read error set at line 4686)
\* goes on from its Progress to deliver Found, and every Found of such a
\* file carries the read error.
C16_ReadErrorIsFound ==
    [][\A w \in Workers :
          (workers[w].pc = "progress" /\ workers[w].sInfo.readError
           /\ workers'[w] # workers[w])
          => workers'[w].pc = "found"]_vars

\* C17: when the regex engine has thrown in a matcher call of a task, in the
\* text matcher or in the byte matcher, the task reports its file with the
\* error stored and the count 1.
C17_RegexErrorIsMatch ==
    \A w \in Workers :
        (workers[w].pc = "progress" /\ workers[w].threw)
        => (workers[w].sInfo.exception /\ workers[w].nCount = 1)

C19_CancelStopsRun ==
    /\ [][(m_cancelled /\ walker.pc = "next") => walker'.pc \in {"next", "wait"}]_vars
    /\ [](\A w \in Workers :
            workers[w].pc = "bScan" =>
               \A k \in 0..StepsOf(workers[w].st, workers[w].job, ScanCfg) :
                  LET mid == AfterSteps(workers[w].st, workers[w].job, ScanCfg, k)
                      s1 == ScanStep(mid, workers[w].job, ScanCfg, TRUE)
                      s2 == IF s1.phase = "done" THEN s1
                            ELSE ScanStep(s1, workers[w].job, ScanCfg, TRUE)
                  IN  mid.phase # "done" =>
                         /\ s2.phase = "done"
                         /\ s2.nFound = mid.nFound)
    /\ (m_cancelled ~> \E i \in 1..Len(brackets) : brackets[i].kind = "End")

\* a cancelled run has ended: the walker saw the flag at its test and left
\* an entry out, and a task came back from a scan loop that was cut short
C19_Witness ==
    /\ m_cancelled
    /\ Len(brackets) = 2
    /\ brackets[2].kind = "End"
    /\ brackets[2].by = WalkerThread
    /\ \E p \in enumerated : p \notin entered
    /\ \E q \in Paths : returned[q].done /\ returned[q].hits > 0 /\ ~returned[q].scanned

\* C21: within one file result delivered with Found the hits are listed in
\* ascending position: for i < j the line and column of hit i are not after
\* those of hit j, as emitted and as the index gave them when the hit was
\* stored.
C21_HitsAscending ==
    \A p \in Paths : \A e \in 1..Len(events[p]) :
        events[p][e].kind = "Found" =>
            LET info == events[p][e].info
                n == Min(Len(info.matchLinesNumbers), Len(info.matchColumnsNumbers))
                NotAfter(l1, c1, l2, c2) == l1 < l2 \/ (l1 = l2 /\ c1 <= c2)
            IN  /\ \A i, j \in 1..n :
                      i < j => NotAfter(info.matchLinesNumbers[i], info.matchColumnsNumbers[i],
                                        info.matchLinesNumbers[j], info.matchColumnsNumbers[j])
                /\ \A i, j \in 1..Len(info.hitCoords) :
                      i < j => NotAfter(info.hitCoords[i][1], info.hitCoords[i][2],
                                        info.hitCoords[j][1], info.hitCoords[j][2])

\* C22: between the Start and the End of a run no step changes a request
\* parameter the walker and the workers read: the search string, the
\* replacement string, the regex flag, the mode flags and the filter
\* settings stay as they were.
C22_ParametersFixedDuringRun ==
    [][(Len(brackets) = 1 /\ brackets[1].kind = "Start" /\ brackets' = brackets) =>
          /\ m_searchString' = m_searchString
          /\ m_replaceString' = m_replaceString
          /\ m_bReplace' = m_bReplace
          /\ m_bNotSearch' = m_bNotSearch
          /\ m_bCaptureSearch' = m_bCaptureSearch
          /\ settings'.bUseRegex = settings.bUseRegex
          /\ settings'.bCreateBackup = settings.bCreateBackup
          /\ settings'.bForceBinary = settings.bForceBinary
          /\ settings'.bIncludeBinary = settings.bIncludeBinary
          /\ settings'.bIncludeHidden = settings.bIncludeHidden
          /\ settings'.bIncludeSystem = settings.bIncludeSystem
          /\ settings'.bIncludeSubfolders = settings.bIncludeSubfolders]_vars

\* C23: in glob mode MatchPath returns the left fold of the pattern list
\* over the lower-cased name of the path: the start value is true when the
\* first pattern begins with '-' and false otherwise, a pattern that begins
\* with '-' gives result AND NOT match(pattern without the '-'), any other
\* pattern gives result OR match(pattern); with an empty list the path
\* matches.
C23_GlobFold ==
    LET patterns == SplitPatterns(mJob.text)
        name == ToLower(PathName(mJob.pathBuf))
        Negative(pat) == pat # << >> /\ Head(pat) = ChDash
        RECURSIVE FoldLeft(_, _)
        FoldLeft(result, pats) ==
            IF pats = << >> THEN result
            ELSE IF Negative(Head(pats))
            THEN FoldLeft(result /\ ~wcswildcmp(Tail(Head(pats)), name), Tail(pats))
            ELSE FoldLeft(result \/ wcswildcmp(Head(pats), name), Tail(pats))
    IN  (mSt.pc = "done" /\ mRet \in {0, 1}) =>
            (mRet = 1) = (IF patterns = << >> THEN TRUE
                          ELSE FoldLeft(Negative(Head(patterns)), patterns))

\* a list whose first pattern is an exclusion that rejects the name and
\* whose second pattern accepts it, against a name with an upper-case letter
C23_Witness ==
    /\ mSt.pc = "done"
    /\ mRet = 1
    /\ Len(mSt.m_patterns) = 2
    /\ mSt.m_patterns[1][1] = ChDash
    /\ mSt.m_patterns[2][1] # ChDash
    /\ wcswildcmp(Tail(mSt.m_patterns[1]), mSt.fName)
    /\ PathName(mJob.pathBuf) # mSt.fName

\* C24: an entry below a directory on which recursion is suppressed (sub
\* folders are not included, or the directory is hidden or system and the
\* flag is unset) is never entered, dispatched or reported.
C24_NothingBelowSuppressed ==
    \A q \in Paths : \A d \in Paths :
        (/\ q.dir = SubDir /\ d.dir = "" /\ DirName(d) = SubDir
         /\ threadsStarted > 0
         /\ fs[d].exists /\ fs[d].folder
         /\ \/ ~settings.bIncludeSubfolders
            \/ ("hidden" \in fs[d].attr /\ ~settings.bIncludeHidden)
            \/ ("system" \in fs[d].attr /\ ~settings.bIncludeSystem))
        => (q \notin entered /\ events[q] = << >>)

\* C25: a directory is reported with Found only in a counting run; in a run
\* with a search string a directory is never handed to the pool and no
\* Found and no Progress is sent for it.
C25_DirectoriesOnlyCounted ==
    \A p \in Paths :
        (fs[p].exists /\ fs[p].folder) =>
            /\ \A e \in 1..Len(events[p]) :
                  events[p][e].kind = "Found" => settings.searchString = << >>
            /\ (threadsStarted > 0 /\ settings.searchString # << >>) =>
                  /\ events[p] = << >>
                  /\ \A t \in 1..Len(tasks) : tasks[t].filePath # p
                  /\ \A w \in Workers : workers[w].sInfo.filePath # p
                  /\ ~returned[p].done

\* the walker of a run with a search string has taken a directory that
\* passes the filters and has gone on to the next entry
C25_Witness ==
    /\ settings.searchString # << >>
    /\ PathOf("d") \in entered
    /\ fs[PathOf("d")].folder
    /\ walker.pc = "next"
    /\ walker.last = Key(PathOf("d"))
    /\ walker.bRecurse
    /\ events[PathOf("d")] = << >>

\* the entry the walker is about to report with Progress 0 passed the
\* attribute test and, if it is a directory, the sub folder test: the size
\* limit has dropped it
DroppedBySize ==
    /\ walker.pc = "progress"
    /\ ~walker.bSearch
    /\ (settings.bIncludeHidden \/ "hidden" \notin walker.findData.attr)
    /\ (settings.bIncludeSystem \/ "system" \notin walker.findData.attr)
    /\ (walker.findData.folder => settings.bIncludeSubfolders)

\* the size limit of the settings holds for the entry the walker is at
WithinSize ==
    \/ settings.bAllSize
    \/ (settings.sizeCmp = 0 /\ Len(walker.findData.data) < settings.lSize)
    \/ (settings.sizeCmp = 1 /\ Len(walker.findData.data) = settings.lSize)
    \/ (settings.sizeCmp = 2 /\ Len(walker.findData.data) > settings.lSize)

\* C26 as stated: the size limit drops files only, never a directory, and
\* drops nothing in an inverse search nor below a root that is a file.
C26_SizeOnlyFiles ==
    DroppedBySize =>
        /\ ~walker.findData.folder
        /\ ~m_bNotSearch
        /\ searchRootIsDir

\* C26: the size limit is applied to the files below a root that is a
\* directory, in an inverse search too, and in a counting run to the
\* directories as well: an entry is dropped by it only when the limit does
\* not hold for it, a directory only in a counting run, and an entry the
\* walker reports or hands to the pool is within the limit; nothing is
\* dropped when the root is a file.
C26_SizeFilesAndCountedDirs ==
    /\ DroppedBySize =>
          /\ searchRootIsDir
          /\ ~WithinSize
          /\ (walker.findData.folder => walker.bCountingOnly)
    /\ (walker.pc \in {"found", "enqueue"} /\ searchRootIsDir) => WithinSize

\* a counting run with a size limit is about to report the directory d,
\* whose size 0 is not within the limit, with Progress 0
C26_Witness ==
    /\ DroppedBySize
    /\ walker.findData.folder
    /\ walker.bCountingOnly
    /\ walker.sPath = PathOf("d")
    /\ ~settings.bAllSize

\* C27: while backups are created, a file of the search root is backed up
\* at most once in a run and its backup holds the content the file had
\* before the run: a backup that exists is never written again.
C27_BackupOnceOriginal ==
    /\ [](\A p \in Paths :
            (settings.bCreateBackup /\ p.sfx = << >> /\ InitialFs[p].exists
             /\ ~InitialFs[p].folder /\ fs[BakOf(p, settings)].exists)
            => fs[BakOf(p, settings)].data = InitialFs[p].data)
    /\ [][\A p \in Paths :
            (settings.bCreateBackup /\ p.sfx = << >> /\ fs[BakOf(p, settings)].exists)
            => fs'[BakOf(p, settings)] = fs[BakOf(p, settings)]]_vars

\* C28: in an inverse search the matcher stops at its first hit: the count
\* it returns is never greater than 1 and no further block is searched after
\* the first hit.
C28_NotSearchStopsAtFirstHit ==
    /\ [](mJob.cfg.notSearch => mSt.nFound <= 1)
    /\ [][(mJob.cfg.notSearch /\ mSt.nFound >= 1) => mSt'.blockEnd = mSt.blockEnd]_vars

\* C29: the pool is created with max(1, hardware_concurrency - 2) threads
\* for every value of hardware_concurrency, 0 and 1 included: the
\* subtraction does not wrap around and the width is at least 1.
C29_PoolWidth ==
    mRet # -2 =>
        /\ mRet >= 1
        /\ mRet = (IF mJob.hardwareConcurrency - 2 > 1
                   THEN mJob.hardwareConcurrency - 2 ELSE 1)

\* a pool created on a machine that reports no hardware concurrency
C29_Witness ==
    /\ mRet = 1
    /\ mJob.hardwareConcurrency = 0

\* C30: in a capture search with the text matcher each hit contributes one
\* triple whose length is the length of the formatted replacement of that
\* very hit, also when several hits start on the same line.
C30_CaptureLengthPerHit ==
    \A p \in Paths : \A e \in 1..Len(events[p]) :
        (/\ events[p][e].kind = "Found"
         /\ m_bCaptureSearch
         /\ Len(events[p][e].info.hitFormats) = Len(events[p][e].info.matchLengths))
        => \A i \in 1..Len(events[p][e].info.hitFormats) :
              events[p][e].info.matchLengths[i] = Len(events[p][e].info.hitFormats[i])

\* C31: in every file result delivered to the host every value of
\* matchLinesNumbers is a key of matchLinesMap, for results of the text
\* matcher and of the byte matcher.
C31_LineNumbersAreKeys ==
    \A p \in Paths : \A e \in 1..Len(events[p]) :
        (/\ events[p][e].kind = "Found"
         /\ events[p][e].info.matchLinesMap # NoLines)
        => \A i \in 1..Len(events[p][e].info.matchLinesNumbers) :
              events[p][e].info.matchLinesNumbers[i] \in DOMAIN events[p][e].info.matchLinesMap

\* the index of the first triple of hit h of a result of the text matcher
\* outside capture-search mode
RECURSIVE FirstTriple(_, _)
FirstTriple(info, h) ==
    IF h = 1 THEN 1
    ELSE FirstTriple(info, h - 1)
         + (info.hitSpans[h - 1].lineEnd - info.hitSpans[h - 1].lineStart + 1)

RECURSIVE SumLengths(_, _, _)
SumLengths(info, from, n) ==
    IF n = 0 THEN 0 ELSE info.matchLengths[from] + SumLengths(info, from + 1, n - 1)

\* the triples of the hits of info are one per covered line and in line
\* order, the first with the column of the hit and the following with
\* column 1, each length at most the rest of its line, the lengths of a hit
\* at most its length in sum, and matchCount is the number of hits
TriplePerLine(info) ==
    /\ info.matchCount = Len(info.hitSpans)
    /\ Len(info.matchLinesNumbers) = FirstTriple(info, Len(info.hitSpans) + 1) - 1
    /\ \A h \in 1..Len(info.hitSpans) :
          LET span == info.hitSpans[h]
              first == FirstTriple(info, h)
              n == span.lineEnd - span.lineStart + 1
          IN  /\ n >= 1
              /\ first + n - 1 <= Len(info.matchLinesNumbers)
              /\ \A k \in 0..(n - 1) :
                    /\ info.matchLinesNumbers[first + k] = span.lineStart + k
                    /\ info.matchColumnsNumbers[first + k] =
                          (IF k = 0 THEN span.colMatch ELSE 1)
                    /\ info.matchLengths[first + k] <=
                          span.lineLengths[span.lineStart + k]
                          - info.matchColumnsNumbers[first + k] + 1
              /\ SumLengths(info, first, n) <= span.lenMatch

\* C32 as stated: every hit of the text matcher contributes one triple per
\* covered line, in every mode.
C32_TriplePerLineAnyMode ==
    \A p \in Paths : \A e \in 1..Len(events[p]) :
        (events[p][e].kind = "Found" /\ events[p][e].info.hitSpans # << >>)
        => TriplePerLine(events[p][e].info)

\* C32: outside capture-search mode a hit of the text matcher that spans
\* lines lineStart..lineEnd contributes exactly one triple per covered line,
\* in line order, the first with the column of the hit and every following
\* one with column 1; each length is at most the rest of its line and the
\* lengths sum to at most the length of the hit; matchCount grows by 1 per
\* hit.
C32_TriplePerLine ==
    \A p \in Paths : \A e \in 1..Len(events[p]) :
        (/\ events[p][e].kind = "Found"
         /\ events[p][e].info.hitSpans # << >>
         /\ ~m_bCaptureSearch)
        => TriplePerLine(events[p][e].info)

\* a hit that starts in column 2 of line 1 and ends on line 2 was delivered
C32_Witness ==
    \E p \in Paths : \E e \in 1..Len(events[p]) :
        /\ events[p][e].kind = "Found"
        /\ ~m_bCaptureSearch
        /\ \E h \in 1..Len(events[p][e].info.hitSpans) :
              /\ events[p][e].info.hitSpans[h].lineEnd > events[p][e].info.hitSpans[h].lineStart
              /\ events[p][e].info.hitSpans[h].colMatch > 1

\* the text the byte matcher keeps for the line of the hit of the job
DecodedLine ==
    LET linePos == PositionsFromLine(mJob.text, LineFromPosition(mJob.text, mJob.pos))
        raw == Sub(mJob.text, linePos[1], linePos[2])
    IN  IF mJob.csz = 2
        THEN (IF mJob.encoding = Unicode_Be THEN utf16Swap(raw) ELSE raw)
        ELSE ConvertToWstring(raw, mJob.encoding)

\* the length in units of the line of the hit of the job
HitLineLength ==
    LET linePos == PositionsFromLine(mJob.text, LineFromPosition(mJob.text, mJob.pos))
    IN  linePos[2] - linePos[1]

\* C33: in the byte matcher a hit on a line longer than MaxLineLength units
\* is accepted with an empty line text and the length 0, a hit on a line of
\* at most MaxLineLength units, exactly MaxLineLength included, gets the
\* decoded text of the line, and matchCount counts the hit in both cases.
C33_LongLineBoundary ==
    mRet # NoInfo =>
        /\ mRet.matchCount = 1
        /\ mJob.pos \in DOMAIN mRet.matchLinesMap
        /\ HitLineLength > MaxLineLength =>
              (mRet.matchLinesMap[mJob.pos] = << >> /\ mRet.matchLengths = << 0 >>)
        /\ HitLineLength <= MaxLineLength =>
              mRet.matchLinesMap[mJob.pos] = DecodedLine

\* C34: when AdoptTempResultFile has renamed the temp file over a file that
\* had the hidden and read-only bits, the file at the original path has the
\* bits it had before the run; when the times are kept, the times the file
\* had before the run are on it again unless none of the CountDownStart
\* attempts succeeded, and the replace is reported as a success either way.
C34_AttributesAndTimesKept ==
    [][\A w \in Workers :
         (workers[w].pc = "aRename" /\ fs' # fs)
         => /\ fs'[workers[w].sInfo.filePath].exists
            /\ fs'[workers[w].sInfo.filePath].attr = AdoptAttributes
            /\ workers'[w].countDown \in 0..CountDownStart
            /\ settings.bKeepFileDate =>
                  (\/ fs'[workers[w].sInfo.filePath].time = 0
                   \/ workers'[w].countDown = 0)
            /\ workers[w].caller = "text" => workers'[w].nCount > 0]_vars

\* how often entry p was dispatched or reported: the SEARCH_PROGRESS
\* messages of the pool threads for it (one per task) and the SEARCH_FOUND
\* messages of the search thread for it (one per report of a counting run)
ProgressCount(p) ==
    Cardinality({e \in 1..Len(events[p]) :
                    \/ events[p][e].kind = "Progress" /\ events[p][e].by # WalkerThread
                    \/ events[p][e].kind = "Found" /\ events[p][e].by = WalkerThread})

\* the run is over: SEARCH_END was sent
RunOver == Len(brackets) = 2 /\ brackets[2].kind = "End"

C36_CountIsHitsRecorded ==
    \A w \in Workers :
        (/\ workers[w].pc = "progress"
         /\ ~m_bNotSearch
         /\ ~m_bReplace
         /\ ~workers[w].sInfo.exception
         /\ workers[w].sInfo.matchCount > 0)
        => workers[w].nCount = workers[w].sInfo.matchCount

\* the input of a byte-matcher pass with every hit replaced by its formatted
\* text and every other byte, from byte offset from on, left where it is
RECURSIVE KeepUnmatched(_, _, _)
KeepUnmatched(wr, k, from) ==
    LET usz == IF wr.job.csz = 2 THEN 2 ELSE 1
        first == wr.st.hitPos[k]
        second == first + wr.st.hitLen[k]
    IN  IF k > Len(wr.st.hitPos) THEN Sub(wr.inData, from, Len(wr.inData))
        ELSE Sub(wr.inData, from, wr.skipSize + usz * first)
             \o Emit(wr.job.csz, regex_replace(wr.job.text, first, second, wr.job.re, wr.job.fmt))
             \o KeepUnmatched(wr, k + 1, wr.skipSize + usz * second)

\* C37: the temp file a byte-matcher replace pass hands to
\* AdoptTempResultFile holds every input byte outside the hits, unchanged
\* and in place, the skipped leading and the dropped trailing byte included.
C37_UnmatchedBytesKept ==
    \A w \in Workers :
        (/\ workers[w].caller = "byte"
         /\ workers[w].pc \in {"aBackup", "aRename"}
         /\ workers[w].tested = "clear"
         /\ fs[TempOf(workers[w].sInfo.filePath)].exists)
        => fs[TempOf(workers[w].sInfo.filePath)].data = KeepUnmatched(workers[w], 1, 0)

\* C39: every started run is followed by a state in which the
\* thread-running flag is false, the dialog being idle again.
C39_RunReturnsToIdle == m_dwThreadRunning ~> ~m_dwThreadRunning

(***************************************************************************)
(* Runs one after the other: a search command is accepted whenever the     *)
(* thread-running flag is false.                                           *)
(***************************************************************************)
StartRuns ==
    /\ ~m_dwThreadRunning
    /\ \E r \in RunsRequests, threadOk \in BOOLEAN :
          DoCommand(r.id, r.s, FALSE, TRUE, threadOk)

NextRuns ==
    \/ StartRuns
    \/ StopCommand
    \/ OnClose
    \/ Walk
    \/ \E w \in Workers : Work(w)

SpecRuns == Init /\ [][NextRuns]_vars

\* the search threads that have not returned
ThreadsAlive == (IF walker.pc # "idle" THEN 1 ELSE 0) + walker.returning

PoolActive == tasks # << >> \/ \E w \in Workers : workers[w].pc # "idle"

\* a command given while a run is on starts nothing, and the cancel flag
\* is reset by the step that starts a run and by no other, with no task
\* queued or running
CommandsWhileRunning ==
    /\ m_dwThreadRunning => threadsStarted' = threadsStarted
    /\ threadsStarted' # threadsStarted =>
           /\ ~m_cancelled' /\ m_dwThreadRunning'
           /\ walker.pc = "idle"
           /\ ~PoolActive
    /\ (m_cancelled /\ ~m_cancelled') => threadsStarted' # threadsStarted

\* C38 as stated: no two search threads exist at once; a command given
\* while a run is on only sets the cancel flag, and the flag is reset
\* exactly when a run is started, no worker being active.
C38_OneThreadAlive ==
    [](ThreadsAlive <= 1) /\ [][CommandsWhileRunning]_vars

\* C38: no search thread is started while another has not yet cleared the
\* thread-running flag; a command given while a run is on only sets the
\* cancel flag, and the flag is reset exactly when a run is started, no
\* worker being active.
C38_OneThreadBeforeFlagClear ==
    [][CommandsWhileRunning]_vars

\* a run has been started while the thread of the run before was returning
C38_Witness ==
    /\ threadsStarted = 2
    /\ m_dwThreadRunning
    /\ walker.pc # "idle"
    /\ walker.returning > 0

\* the sum of f over the paths of S
RECURSIVE SumPaths(_, _)
SumPaths(f, S) ==
    IF S = {} THEN 0
    ELSE LET p == CHOOSE q \in S : TRUE IN f[p] + SumPaths(f, S \ {p})

\* the Progress events handled since Start, those with a true flag among
\* them, and the sum of matchCount over the Found events handled since Start
ProgressReceived ==
    SumPaths([p \in Paths |->
                 Cardinality({i \in 1..Len(events[p]) : events[p][i].kind = "Progress"})],
             Paths)
SearchedReceived ==
    SumPaths([p \in Paths |->
                 Cardinality({i \in 1..Len(events[p]) :
                                 /\ events[p][i].kind = "Progress"
                                 /\ events[p][i].wParam # 0})],
             Paths)
RECURSIVE MatchesIn(_)
MatchesIn(seq) ==
    IF seq = << >> THEN 0
    ELSE (IF Head(seq).kind = "Found" THEN Head(seq).info.matchCount ELSE 0)
         + MatchesIn(Tail(seq))
MatchesReceived == SumPaths([p \in Paths |-> MatchesIn(events[p])], Paths)

\* the search thread of the run has sent Start and has not cleared the flag
StartHandled == walker.pc \notin {"idle", "start"}

\* C40: the counters of the dialog satisfy 0 <= m_searchedItems <=
\* m_totalItems in every state, and in a run, from its Start on,
\* m_totalItems is the number of Progress messages handled since Start,
\* m_searchedItems the number of those with a true flag, and m_totalMatches
\* the sum of matchCount over the Found messages handled since Start.
C40_CountersFollowMessages ==
    /\ 0 <= m_searchedItems
    /\ m_searchedItems <= m_totalItems
    /\ StartHandled =>
          /\ m_totalItems = ProgressReceived
          /\ m_searchedItems = SearchedReceived
          /\ m_totalMatches = MatchesReceived

\* a second run in which a file with a hit has been reported
C40_Witness ==
    /\ threadsStarted = 2
    /\ StartHandled
    /\ m_searchedItems > 0
    /\ m_totalMatches > 0
    /\ m_totalMatches = MatchesReceived

====
